---------------------------- MODULE Spec2Model ----------------------------
(***************************************************************************)
(* Word Flow Text Analyzer: the text analysis pipeline (TextParser) and    *)
(* the title extraction of BaseAnalysisView.                               *)
(*                                                                         *)
(* A string is a sequence of Unicode code points (32 is the space, 46 the  *)
(* full stop, 97 the letter a, 8 the backspace ...), so that character     *)
(* classes, lower-casing and the code-point order of sorted() are what     *)
(* Python computes.  The character classes are given for the code points   *)
(* below 384, the range the word patterns name (U+00C0 to U+017F).         *)
(***************************************************************************)
EXTENDS Integers, Sequences, FiniteSets, TLC

VARIABLES
    pc,                 \* position of the request: "start", "analyzed", "responded",
                        \* "failed" when an exception left analyze_text;
                        \* "cleaned", "recleaned" after clean_text;
                        \* "received" before a view's post extracts the text
    request,            \* the HTTP request handed to post
    status,             \* HTTP status of the Response, 0 while there is none
    text,               \* the text handed to TextParser.analyze_text
    cleaned,            \* what TextParser.clean_text returned last
    min_word_length,    \* its min_word_length argument
    top_n,              \* the top_n argument of extract_most_common_words
    min_frequency,      \* the min_frequency argument of extract_words_by_frequency
    use_nltk,           \* TextParser.use_nltk after the constructor
    method,             \* segmentation method that produced sentences: "none", "nltk", "fallback"
    calls,              \* pipeline stages analyze_text invoked, in order
    exception,          \* class of the exception sent_tokenize raised, "none" if none
    result,             \* the TextAnalysisResult
    endpoint_type,      \* the arguments of create_analysis_response ...
    file_info,
    filename,
    custom_title,
    response,           \* ... and the body of the Response it returns
    fate,               \* per uploaded image: the operation of its processing that raises, "ok" if none
    task,               \* per uploaded image: position of its process_single_image call
    register,           \* per uploaded image: the counter value its thread read for the += in progress
    report,             \* per uploaded image: what its future holds: "none", "success", "failure", "raised"
    statistics,         \* what TextParser.get_text_statistics returned
    result_rows,        \* the rows of the ImageAnalysisResult table, in the order of their creation
    clock,              \* what timezone.now() returns next
    results_response,   \* the last Response of BatchImageAnalysisResultsView.get, with the
                        \* session_id of its request
    temp_files,         \* the temporary files EpubProcessor created that exist
    session             \* the ImageAnalysisSession object the worker threads share

vars == <<pc, request, status, text, cleaned, min_word_length, top_n, use_nltk, method, calls,
          exception, result, endpoint_type, file_info, filename, custom_title, response,
          fate, task, register, report, session, min_frequency, statistics,
          result_rows, clock, results_response, temp_files>>

\* the state of a batch image upload
batchVars == <<fate, task, register, report, session, result_rows, clock, results_response>>

\* the state of a text analysis, its request and its response aside
analysisVars == <<request, text, cleaned, min_word_length, top_n, use_nltk, method, calls,
                  exception, result, endpoint_type, file_info, filename, custom_title,
                  min_frequency, statistics, temp_files>>

\* what the analysis of a text and the answer to its request leave alone
otherVars == <<batchVars, min_frequency, statistics, temp_files>>

-----------------------------------------------------------------------------
(* Bounds of the model *)

\* longest text over Alphabet that Init enumerates
MaxLen == 3

\* largest min_word_length that Init enumerates
MaxMinLen == 2

\* most sentences in a text handed to the view
MaxSentences == 2

\* longest text over CleanAlphabet handed to clean_text
MaxCleanLen == 4

\* most words of a text handed to extract_most_common_words
MaxTopWords == 3

\* largest top_n handed to extract_most_common_words
MaxTopN == 3

\* largest min_frequency handed to extract_words_by_frequency
MaxMinFrequency == 3

\* longest text handed to a sentence segmenter alone
MaxSegmentLen == 4

\* most images in one batch upload
MaxImages == 2
MaxOtherResults == 2

\* most lines of an SRT content
MaxSrtLines == 3

-----------------------------------------------------------------------------
(* Characters *)

\* the letter class [a-zA-Z\u00C0-\u017F] of the word patterns
IsLetter(c) == (c >= 65 /\ c <= 90) \/ (c >= 97 /\ c <= 122) \/ (c >= 192 /\ c <= 383)

\* \d
IsDigit(c) == c >= 48 /\ c <= 57

\* \w of a str pattern: alphanumeric or underscore
IsWordChar(c) ==
    \/ c >= 48 /\ c <= 57
    \/ c >= 65 /\ c <= 90
    \/ c = 95
    \/ c >= 97 /\ c <= 122
    \/ c \in {170, 178, 179, 181, 185, 186, 188, 189, 190}
    \/ c >= 192 /\ c <= 383 /\ c # 215 /\ c # 247

\* str.isspace(): what str.split() splits on and str.strip() removes
IsSpace(c) == (c >= 9 /\ c <= 13) \/ (c >= 28 /\ c <= 32) \/ c = 133 \/ c = 160

\* [.] alone
IsTerminator_full_stop_only(c) == c = 46

\* [.!?]
IsTerminator(c) == c \in {46, 33, 63}

\* str.lower() of one character
LowerChar(c) ==
    IF (c >= 65 /\ c <= 90) \/ (c >= 192 /\ c <= 222 /\ c # 215) THEN <<c + 32>>
    ELSE IF c = 304 THEN <<105, 775>>
    ELSE IF c = 376 THEN <<255>>
    ELSE IF c >= 256 /\ c <= 311 /\ c % 2 = 0 THEN <<c + 1>>
    ELSE IF c >= 313 /\ c <= 328 /\ c % 2 = 1 THEN <<c + 1>>
    ELSE IF c >= 330 /\ c <= 375 /\ c % 2 = 0 THEN <<c + 1>>
    ELSE IF c >= 377 /\ c <= 382 /\ c % 2 = 1 THEN <<c + 1>>
    ELSE <<c>>

RECURSIVE LowerFrom(_, _)
LowerFrom(s, i) == IF i > Len(s) THEN <<>> ELSE LowerChar(s[i]) \o LowerFrom(s, i + 1)

\* word.lower()
Lower(s) == LowerFrom(s, 1)

\* the least element of a non-empty set of integers
Min(S) == CHOOSE x \in S : \A y \in S : x <= y

\* s.strip(): s without its leading and its trailing whitespace
\* (lead and trail are the lengths of the two runs of whitespace)
Strip(s) ==
    LET n == Len(s)
        lead  == CHOOSE i \in 0..n : /\ i = n \/ ~IsSpace(s[i + 1])
                                     /\ \A j \in 1..i : IsSpace(s[j])
        trail == CHOOSE i \in 0..n : /\ i = n \/ ~IsSpace(s[n - i])
                                     /\ \A j \in 1..i : IsSpace(s[n + 1 - j])
    IN  SubSeq(s, lead + 1, n - trail)

\* a < b for str (code-point order)
RECURSIVE StrLessFrom(_, _, _)
StrLessFrom(a, b, i) ==
    IF i > Len(a) THEN i <= Len(b)
    ELSE IF i > Len(b) THEN FALSE
    ELSE IF a[i] # b[i] THEN a[i] < b[i]
    ELSE StrLessFrom(a, b, i + 1)

StrLess(a, b) == StrLessFrom(a, b, 1)

-----------------------------------------------------------------------------
(* TextParser.clean_text *)

\* text.split(): the maximal runs of non-whitespace, in order
\* (from index i on: the next run starts at the first non-whitespace character
\* and ends before the next whitespace character)
RECURSIVE SplitFrom(_, _)
SplitFrom(s, i) ==
    LET n == Len(s)
        starts == {j \in i..n : ~IsSpace(s[j])}
    IN  IF starts = {} THEN <<>>
        ELSE LET b == Min(starts)
                 e == Min({j \in b..n : j = n \/ IsSpace(s[j + 1])})
             IN  <<SubSeq(s, b, e)>> \o SplitFrom(s, e + 1)

Split(s) == SplitFrom(s, 1)

\* ' '.join(parts)
RECURSIVE JoinFrom(_, _)
JoinFrom(parts, i) ==
    IF i > Len(parts) THEN <<>>
    ELSE IF i = Len(parts) THEN parts[i]
    ELSE parts[i] \o <<32>> \o JoinFrom(parts, i + 1)

Join(parts) == JoinFrom(parts, 1)

\* the text trimmed at both ends only
clean_text_strip_only(t) == IF t = <<>> THEN <<>> ELSE Strip(t)

clean_text(t) == IF t = <<>> THEN <<>> ELSE Join(Split(t))

-----------------------------------------------------------------------------
(* TextParser.extract_sentences *)

\* a split that keeps each terminator at the end of its sentence
_extract_sentences_fallback_keeping(t) ==
    LET n == Len(t)
        cuts == {i \in 1..n : IsTerminator(t[i])}
        begins == {1} \cup {i + 1 : i \in cuts}
        beginSeq == [k \in 1..Cardinality(begins) |->
                        CHOOSE b \in begins : Cardinality({x \in begins : x < b}) = k - 1]
    IN  [k \in 1..Len(beginSeq) |->
            SubSeq(t, beginSeq[k],
                   IF k = Len(beginSeq) THEN n ELSE beginSeq[k + 1] - 1)]

\* re.split(r'[.!?]+', text): the pieces between the maximal runs of
\* terminators, the empty pieces at the ends included
\* (from index start on: the piece up to the next terminator, then the rest
\* after the run of terminators that begins there)
RECURSIVE re_split_from(_, _)
re_split_from(s, start) ==
    LET n == Len(s)
        terms == {i \in start..n : IsTerminator(s[i])}
    IN  IF terms = {} THEN <<SubSeq(s, start, n)>>
        ELSE LET b == Min(terms)
                 e == Min({j \in b..n : j = n \/ ~IsTerminator(s[j + 1])})
             IN  <<SubSeq(s, start, b - 1)>> \o re_split_from(s, e + 1)

_extract_sentences_fallback(t) == re_split_from(t, 1)

\* t cut after every position of B
RECURSIVE CutAfter(_, _, _)
CutAfter(t, B, start) ==
    LET rest == {b \in B : b >= start}
    IN  IF rest = {} THEN <<SubSeq(t, start, Len(t))>>
        ELSE <<SubSeq(t, start, Min(rest))>> \o CutAfter(t, B, Min(rest) + 1)

\* the exception classes the import and the call of sent_tokenize can raise:
\* the package is missing, a resource is missing, any other failure
TokenizerExceptions == {"ImportError", "LookupError", "ValueError"}

\* the classes an except clause for LookupError alone would handle
IsException_lookup_only(cls) == cls = "LookupError"

\* except Exception: the exception classes derived from Exception
IsException(cls) == cls \in {"Exception", "ImportError", "LookupError", "ValueError"}

\* nltk.tokenize.sent_tokenize is a library outside the repository: it either
\* raises, or returns the text cut after some of its terminators (which ones
\* is the pretrained model's choice), terminators kept.
sent_tokenize(t) ==
    LET candidates == {i \in 1..(Len(t) - 1) : IsTerminator(t[i])}
    IN  {[raised |-> TRUE, exception |-> cls, sentences |-> <<>>] : cls \in TokenizerExceptions} \cup
        {[raised |-> FALSE, exception |-> "none", sentences |-> CutAfter(t, B, 1)] :
            B \in SUBSET candidates}

\* sent_tokenize was not called
NotCalled == [raised |-> FALSE, exception |-> "none", sentences |-> <<>>]

\* what the tokenizer can do during extract_sentences(t): it is called only
\* for a non-empty text and when self.use_nltk is set
TokenizerOutcomes(t, use) == IF use /\ t # <<>> THEN sent_tokenize(t) ELSE {NotCalled}

\* [s for s in sentences if s.strip()]: the filter without the strip
StripNonEmptyFrom_unstripped(ss, i) ==
    SelectSeq(SubSeq(ss, i, Len(ss)), LAMBDA x : Strip(x) # <<>>)

\* [s.strip() for s in sentences if s.strip()]
RECURSIVE StripNonEmptyFrom(_, _)
StripNonEmptyFrom(ss, i) ==
    IF i > Len(ss) THEN <<>>
    ELSE LET st == Strip(ss[i])
         IN  (IF st # <<>> THEN <<st>> ELSE <<>>) \o StripNonEmptyFrom(ss, i + 1)

\* the try block of extract_sentences is entered and sent_tokenize raises
TokenizerRaised(t, use, tok) == t # <<>> /\ use /\ tok.raised

\* the exception leaves extract_sentences: no except clause handles it
extract_sentences_raises(t, use, tok) ==
    TokenizerRaised(t, use, tok) /\ ~IsException(tok.exception)

\* the method that yields the sentences of a non-empty text
SegmentationMethod(use, tok) == IF use /\ ~tok.raised THEN "nltk" ELSE "fallback"

\* use: self.use_nltk; tok: what sent_tokenize does when called
extract_sentences(t, use, tok) ==
    IF t = <<>> THEN <<>>
    ELSE LET sentences == IF SegmentationMethod(use, tok) = "nltk"
                          THEN tok.sentences
                          ELSE _extract_sentences_fallback(t)
         IN  StripNonEmptyFrom(sentences, 1)

\* the exception leaves tokenize_sentences (src/parser/views/base.py)
tokenize_sentences_raises(tok) == tok.raised /\ ~IsException(tok.exception)

\* tokenize_sentences(text) of src/parser/views/base.py: sent_tokenize, the
\* regex split when it raises, then the strip and the filter once more
tokenize_sentences(t, tok) ==
    LET sentences == IF tok.raised
                     THEN StripNonEmptyFrom(re_split_from(t, 1), 1)
                     ELSE tok.sentences
    IN  StripNonEmptyFrom(sentences, 1)

-----------------------------------------------------------------------------
(* TextParser.extract_words *)

\* \b at offset p (between s[p] and s[p+1]; 0 is the start, Len(s) the end)
Boundary(s, p) ==
    LET before == p >= 1 /\ IsWordChar(s[p])
        after  == p < Len(s) /\ IsWordChar(s[p + 1])
    IN  before # after

(* Each pattern is the automaton of its regular expression between the     *)
(* leading \b and the end: state 1 is the start, 0 is "no transition".     *)
(* The letter and digit classes are disjoint and no pattern has two ways   *)
(* to read a string, so the greedy, backtracking match of re at a position *)
(* is the longest accepted one.                                            *)

\* pattern1 = \b L+ \b
pattern1(q, c) ==
    IF q \in {1, 2} /\ IsLetter(c) THEN 2 ELSE 0

\* \b L+ L+ with nothing after it: every word of two letters or more
pattern2_any_word(q, c) ==
    IF q = 1 /\ IsLetter(c) THEN 2
    ELSE IF q \in {2, 4} /\ IsLetter(c) THEN 4
    ELSE 0

\* pattern2 = \b L+ L+ <backspace>: the second literal of the concatenation
\* is not a raw string, so its '\b' is the character U+0008; there is no
\* apostrophe in the pattern
pattern2(q, c) ==
    IF q = 1 /\ IsLetter(c) THEN 2
    ELSE IF q \in {2, 3} /\ IsLetter(c) THEN 3
    ELSE IF q = 3 /\ c = 8 THEN 4
    ELSE 0

\* \b L+ - L+ \b: one hyphen only
pattern3_single_hyphen(q, c) ==
    IF q \in {1, 2} /\ IsLetter(c) THEN 2
    ELSE IF q = 2 /\ c = 45 THEN 3
    ELSE IF q \in {3, 4} /\ IsLetter(c) THEN 4
    ELSE 0

\* pattern3 = \b L+ (?:-L+)+ \b
pattern3(q, c) ==
    IF q \in {1, 2} /\ IsLetter(c) THEN 2
    ELSE IF q \in {2, 4} /\ c = 45 THEN 3
    ELSE IF q \in {3, 4} /\ IsLetter(c) THEN 4
    ELSE 0

\* pattern4 = \b L+ \d+ (?:-[L\d]+)* \b
pattern4(q, c) ==
    IF q \in {1, 2} /\ IsLetter(c) THEN 2
    ELSE IF q \in {2, 3} /\ IsDigit(c) THEN 3
    ELSE IF q \in {3, 5} /\ c = 45 THEN 4
    ELSE IF q \in {4, 5} /\ (IsLetter(c) \/ IsDigit(c)) THEN 5
    ELSE 0

\* pattern5 = \b \d+ L+ (?:-[L\d]+)* \b
pattern5(q, c) ==
    IF q \in {1, 2} /\ IsDigit(c) THEN 2
    ELSE IF q \in {2, 3} /\ IsLetter(c) THEN 3
    ELSE IF q \in {3, 5} /\ c = 45 THEN 4
    ELSE IF q \in {4, 5} /\ (IsLetter(c) \/ IsDigit(c)) THEN 5
    ELSE 0

PatternStep(k, q, c) ==
    CASE k = 1 -> pattern1(q, c)
      [] k = 2 -> pattern2(q, c)
      [] k = 3 -> pattern3(q, c)
      [] k = 4 -> pattern4(q, c)
      [] k = 5 -> pattern5(q, c)

\* the states in which the pattern is complete
PatternAccept(k) ==
    CASE k = 1 -> {2}
      [] k = 2 -> {4}
      [] k = 3 -> {4}
      [] k = 4 -> {3, 5}
      [] k = 5 -> {3, 5}

\* whether the pattern ends in \b (pattern2 ends in the backspace character)
PatternEndsInBoundary(k) == k # 2

\* the last index j >= i where pattern k, started at i, is complete; best if none
RECURSIVE LastAccept(_, _, _, _, _)
LastAccept(k, s, j, q, best) ==
    IF j > Len(s) THEN best
    ELSE LET q2 == PatternStep(k, q, s[j])
         IN  IF q2 = 0 THEN best
             ELSE LastAccept(k, s, j + 1, q2,
                     IF q2 \in PatternAccept(k)
                        /\ (PatternEndsInBoundary(k) => Boundary(s, j))
                     THEN j ELSE best)

\* the end of the match of pattern k at index i, 0 if it does not match there
MatchEnd(k, s, i) ==
    IF Boundary(s, i - 1) THEN LastAccept(k, s, i, 1, 0) ELSE 0

\* re.findall(pattern_k, s): the non-overlapping matches, left to right
\* (ends[j] is the end of the match at j; from index i on, the next match is
\* at the first index where the pattern matches, the search resumes after it)
RECURSIVE findall_from(_, _, _)
findall_from(s, ends, i) ==
    LET at == {j \in i..Len(s) : ends[j] # 0}
    IN  IF at = {} THEN <<>>
        ELSE LET b == Min(at)
             IN  <<SubSeq(s, b, ends[b])>> \o findall_from(s, ends, ends[b] + 1)

findall(k, s) == findall_from(s, [j \in 1..Len(s) |-> MatchEnd(k, s, j)], 1)

\* the matches as they are, not lowercased
MapLower_as_matched(ws, i) == SubSeq(ws, i, Len(ws))

\* [f(x) for x in ws]
RECURSIVE MapLower(_, _)
MapLower(ws, i) == IF i > Len(ws) THEN <<>> ELSE <<Lower(ws[i])>> \o MapLower(ws, i + 1)

\* [word for word in ws if len(word) > n]: the bound itself excluded
FilterMinLen_above(ws, n, i) == SelectSeq(SubSeq(ws, i, Len(ws)), LAMBDA w : Len(w) > n)

\* [word for word in ws if len(word) >= n]
RECURSIVE FilterMinLen(_, _, _)
FilterMinLen(ws, n, i) ==
    IF i > Len(ws) THEN <<>>
    ELSE (IF Len(ws[i]) >= n THEN <<ws[i]>> ELSE <<>>) \o FilterMinLen(ws, n, i + 1)

extract_words(t, min_length) ==
    IF t = <<>> THEN <<>>
    ELSE LET words == findall(1, t) \o findall(2, t) \o findall(3, t)
                        \o findall(4, t) \o findall(5, t)
             lowered == MapLower(words, 1)
         IN  IF min_length > 1 THEN FilterMinLen(lowered, min_length, 1) ELSE lowered

-----------------------------------------------------------------------------
(* TextParser.calculate_word_counts *)

\* Counter(words)[w]
CountOf(words, w) == Cardinality({i \in 1..Len(words) : words[i] = w})

\* sorted(S) for a set of str
RECURSIVE SortedStrs(_)
SortedStrs(S) ==
    IF S = {} THEN <<>>
    ELSE LET m == CHOOSE x \in S : \A y \in S \ {x} : StrLess(x, y)
         IN  <<m>> \o SortedStrs(S \ {m})

\* usage_count that records presence, not the number of occurrences
calculate_word_counts_presence(words) ==
    IF words = <<>> THEN <<>>
    ELSE LET keys == SortedStrs({words[i] : i \in 1..Len(words)})
         IN  [i \in 1..Len(keys) |-> [text |-> keys[i], usage_count |-> 1]]

\* the keys of Counter(words) in the order of their first occurrence
RECURSIVE FirstOccurrences(_, _)
FirstOccurrences(words, i) ==
    IF i > Len(words) THEN <<>>
    ELSE (IF \E j \in 1..(i - 1) : words[j] = words[i] THEN <<>> ELSE <<words[i]>>)
         \o FirstOccurrences(words, i + 1)

\* word_counts.items() without sorted()
calculate_word_counts_unsorted(words) ==
    IF words = <<>> THEN <<>>
    ELSE LET keys == FirstOccurrences(words, 1)
         IN  [i \in 1..Len(keys) |->
                 [text |-> keys[i], usage_count |-> CountOf(words, keys[i])]]

calculate_word_counts(words) ==
    IF words = <<>> THEN <<>>
    ELSE LET keys == SortedStrs({words[i] : i \in 1..Len(words)})
         IN  [i \in 1..Len(keys) |->
                 [text |-> keys[i], usage_count |-> CountOf(words, keys[i])]]

-----------------------------------------------------------------------------
(* TextParser.extract_most_common_words *)

\* Counter(words).items(): the distinct words in the order of their first
\* occurrence, each with its count
CounterItems(words) ==
    LET keys == FirstOccurrences(words, 1)
    IN  [i \in 1..Len(keys) |-> [text |-> keys[i], usage_count |-> CountOf(words, keys[i])]]

\* the n entries of highest count, entries of equal count in word order
most_common_by_key(items, n) ==
    LET before(i) == Cardinality({j \in 1..Len(items) :
                        \/ items[j].usage_count > items[i].usage_count
                        \/ /\ items[j].usage_count = items[i].usage_count
                           /\ StrLess(items[j].text, items[i].text)})
        size == IF n < Len(items) THEN n ELSE Len(items)
    IN  [k \in 1..size |-> items[CHOOSE i \in 1..Len(items) : before(i) = k - 1]]

\* Counter.most_common(n) = heapq.nlargest(n, items, key=count): the n
\* entries of highest count, highest first; among entries of equal count
\* the one met earlier in items comes first (max() returns the first
\* maximum, sorted(reverse=True) is stable, and the heap orders equal keys
\* by arrival); nothing for n <= 0
most_common(items, n) ==
    LET before(i) == Cardinality({j \in 1..Len(items) :
                        \/ items[j].usage_count > items[i].usage_count
                        \/ /\ items[j].usage_count = items[i].usage_count
                           /\ j < i})
        size == IF n < Len(items) THEN n ELSE Len(items)
    IN  [k \in 1..size |-> items[CHOOSE i \in 1..Len(items) : before(i) = k - 1]]

extract_most_common_words(t, n, min_length) ==
    IF t = <<>> THEN <<>>
    ELSE most_common(CounterItems(extract_words(clean_text(t), min_length)), n)

-----------------------------------------------------------------------------
(* TextParser.extract_words_by_frequency *)

\* list.sort(key=lambda x: -x['usage_count']): by count alone; the sort is
\* stable, so entries of equal count keep the order of the list
sort_by_count_only(entries) ==
    LET before(i) == Cardinality({j \in 1..Len(entries) :
                        \/ entries[j].usage_count > entries[i].usage_count
                        \/ /\ entries[j].usage_count = entries[i].usage_count
                           /\ j < i})
    IN  [k \in 1..Len(entries) |-> entries[CHOOSE i \in 1..Len(entries) : before(i) = k - 1]]

\* list.sort(key=lambda x: (-x['usage_count'], x['text'])): the tuples are
\* compared by the negated count, then by the word as str
sort_by_count_then_text(entries) ==
    LET before(i) == Cardinality({j \in 1..Len(entries) :
                        \/ entries[j].usage_count > entries[i].usage_count
                        \/ /\ entries[j].usage_count = entries[i].usage_count
                           /\ StrLess(entries[j].text, entries[i].text)})
    IN  [k \in 1..Len(entries) |-> entries[CHOOSE i \in 1..Len(entries) : before(i) = k - 1]]

extract_words_by_frequency(t, min_freq, min_length) ==
    IF t = <<>> THEN <<>>
    ELSE LET word_counts == CounterItems(extract_words(clean_text(t), min_length))
             frequent_words == SelectSeq(word_counts, LAMBDA x : x.usage_count >= min_freq)
         IN  sort_by_count_then_text(frequent_words)

-----------------------------------------------------------------------------
(* TextParser.analyze_text *)

\* TextAnalysisResult(...)
TextAnalysisResult(sentences, unique_words, total_words, total_unique_words, total_sentences) ==
    [sentences |-> sentences, unique_words |-> unique_words, total_words |-> total_words,
     total_unique_words |-> total_unique_words, total_sentences |-> total_sentences]

analyze_text(t, mwl, use, tok) ==
    IF t = <<>> THEN TextAnalysisResult(<<>>, <<>>, 0, 0, 0)
    ELSE LET cleaned_text == clean_text(t)
             sentences == extract_sentences(cleaned_text, use, tok)
             words == extract_words(cleaned_text, mwl)
             unique_words_with_counts == calculate_word_counts(words)
         IN  TextAnalysisResult(sentences, unique_words_with_counts, Len(words),
                                Len(unique_words_with_counts), Len(sentences))

\* round(num / den, 2) in hundredths: the quotient rounded to the nearest
\* hundredth, a tie to the even one (the float quotient is exact at a tie
\* unless den is a multiple of 5; the texts of the model have fewer words
\* and sentences than the least such den with a tie, 40)
round2(num, den) ==
    LET floor == (100 * num) \div den
        twice == 2 * ((100 * num) % den)
    IN  IF twice > den \/ (twice = den /\ floor % 2 = 1) THEN floor + 1 ELSE floor

\* sum(len(word) for word in words)
RECURSIVE SumLen(_, _)
SumLen(words, i) == IF i > Len(words) THEN 0 ELSE Len(words[i]) + SumLen(words, i + 1)

\* total_unique_words = len(words): the tokens, not the set of them
get_text_statistics_tokens(t, mwl, use, tok) ==
    LET words == extract_words(clean_text(t), mwl)
    IN  [total_words |-> Len(words), total_unique_words |-> Len(words),
         total_sentences |-> Len(extract_sentences(clean_text(t), use, tok)),
         average_word_length |-> 0, average_sentence_length |-> 0]

\* the averages are in hundredths
get_text_statistics(t, mwl, use, tok) ==
    IF t = <<>>
    THEN [total_words |-> 0, total_unique_words |-> 0, total_sentences |-> 0,
          average_word_length |-> 0, average_sentence_length |-> 0]
    ELSE LET cleaned_text == clean_text(t)
             sentences == extract_sentences(cleaned_text, use, tok)
             words == extract_words(cleaned_text, mwl)
             unique_words == {words[i] : i \in 1..Len(words)}
             total_words == Len(words)
             total_unique_words == Cardinality(unique_words)
             total_sentences == Len(sentences)
             average_word_length ==
                 IF total_words > 0 THEN round2(SumLen(words, 1), total_words) ELSE 0
             average_sentence_length ==
                 IF total_sentences > 0 THEN round2(total_words, total_sentences) ELSE 0
         IN  [total_words |-> total_words, total_unique_words |-> total_unique_words,
              total_sentences |-> total_sentences,
              average_word_length |-> average_word_length,
              average_sentence_length |-> average_sentence_length]

\* analyze_text has no try block: what leaves extract_sentences leaves it
analyze_text_raises(t, use, tok) ==
    t # <<>> /\ extract_sentences_raises(clean_text(t), use, tok)

\* without the early return of the empty text
analyze_text_calls_no_early_return(t) ==
    <<"clean_text", "extract_sentences", "extract_words", "calculate_word_counts">>

\* the stages analyze_text runs, in order
analyze_text_calls(t) ==
    IF t = <<>> THEN <<>>
    ELSE <<"clean_text", "extract_sentences", "extract_words", "calculate_word_counts">>

-----------------------------------------------------------------------------
(* BaseAnalysisView.extract_title and create_analysis_response *)

\* "Untitled"
Untitled == <<85, 110, 116, 105, 116, 108, 101, 100>>

\* "Untitled Subtitle"
UntitledSubtitle == <<85, 110, 116, 105, 116, 108, 101, 100, 32, 83, 117, 98, 116, 105, 116, 108, 101>>

\* "Untitled Book"
UntitledBook == <<85, 110, 116, 105, 116, 108, 101, 100, 32, 66, 111, 111, 107>>

\* "..."
Ellipsis == <<46, 46, 46>>

\* the marker appended to the first 100 characters
Truncate_after_100(title) ==
    IF Len(title) > 100 THEN SubSeq(title, 1, 100) \o Ellipsis ELSE title

\* if len(title) > 100: title = title[:97] + "..."
Truncate(title) ==
    IF Len(title) > 100 THEN SubSeq(title, 1, 97) \o Ellipsis ELSE title

\* for sentence in sentences: if sentence and len(sentence.strip()) > 10: ...
\* the index of the first such sentence, 0 if there is none
FirstMeaningful(sentences) ==
    LET ok == {i \in 1..Len(sentences) :
                  sentences[i] # <<>> /\ Len(Strip(sentences[i])) > 10}
    IN  IF ok = {} THEN 0 ELSE Min(ok)

\* os.path.splitext(p)[0]: p up to its last dot, when that dot is in the last
\* path component and some character other than a dot precedes it there
splitext_root(p) ==
    LET seps == {i \in 1..Len(p) : p[i] = 47}
        dots == {i \in 1..Len(p) : p[i] = 46}
        sepIndex == IF seps = {} THEN 0 ELSE CHOOSE i \in seps : \A j \in seps : j <= i
        dotIndex == IF dots = {} THEN 0 ELSE CHOOSE i \in dots : \A j \in dots : j <= i
    IN  IF dotIndex > sepIndex /\ \E k \in (sepIndex + 1)..(dotIndex - 1) : p[k] # 46
        THEN SubSeq(p, 1, dotIndex - 1)
        ELSE p

\* file_info is None, a SubtitleFileInfo (no title attribute) or an EpubFileInfo
HasTitle(fi) == fi.kind = "epub" /\ fi.title # <<>>

\* the text branch with the minimum-length filter of the other two
text_title_min_length(sentences, ctitle) ==
    IF ctitle # <<>> /\ Strip(ctitle) # <<>> THEN Strip(ctitle)
    ELSE LET i == FirstMeaningful(sentences)
         IN  IF i # 0 THEN Truncate(Strip(sentences[i])) ELSE Untitled

\* the branch endpoint_type == "text"
text_title(sentences, ctitle) ==
    IF ctitle # <<>> /\ Strip(ctitle) # <<>> THEN Strip(ctitle)
    ELSE IF sentences # <<>> THEN Truncate(Strip(sentences[1]))
    ELSE Untitled

\* the subtitle branch with the filename title truncated like a sentence
subtitle_title_truncated(sentences, fname) ==
    IF fname # <<>> THEN Truncate(splitext_root(fname))
    ELSE LET i == FirstMeaningful(sentences)
         IN  IF i # 0 THEN Truncate(Strip(sentences[i])) ELSE UntitledSubtitle

\* the branch endpoint_type == "subtitle"
subtitle_title(sentences, fname) ==
    IF fname # <<>> THEN splitext_root(fname)
    ELSE LET i == FirstMeaningful(sentences)
         IN  IF i # 0 THEN Truncate(Strip(sentences[i])) ELSE UntitledSubtitle

\* the epub branch taking the first sentence whatever its length
epub_title_first_sentence(sentences) ==
    IF sentences # <<>> THEN Truncate(Strip(sentences[1])) ELSE UntitledBook

\* the branch endpoint_type == "epub", after the metadata title
epub_title(sentences) ==
    LET i == FirstMeaningful(sentences)
    IN  IF i # 0 THEN Truncate(Strip(sentences[i])) ELSE UntitledBook

\* extract_title without the early return of the empty text
extract_title_no_empty_guard(t, et, sentences, fi, fname, ctitle) ==
    IF et = "epub" /\ HasTitle(fi) THEN fi.title
    ELSE IF et = "text" THEN text_title(sentences, ctitle)
    ELSE IF et = "subtitle" THEN subtitle_title(sentences, fname)
    ELSE IF et = "epub" THEN epub_title(sentences)
    ELSE Untitled

extract_title(t, et, sentences, fi, fname, ctitle) ==
    IF t = <<>> THEN Untitled
    ELSE IF et = "epub" /\ HasTitle(fi) THEN fi.title
    ELSE IF et = "text" THEN text_title(sentences, ctitle)
    ELSE IF et = "subtitle" THEN subtitle_title(sentences, fname)
    ELSE IF et = "epub" THEN epub_title(sentences)
    ELSE Untitled

\* the pairs in the reverse of the order of unique_words
WordPairs_reversed(unique_words) ==
    [i \in 1..Len(unique_words) |->
        <<unique_words[Len(unique_words) + 1 - i].text,
          unique_words[Len(unique_words) + 1 - i].usage_count>>]

\* [[word["text"], word["usage_count"]] for word in result.unique_words]
WordPairs(unique_words) ==
    [i \in 1..Len(unique_words) |-> <<unique_words[i].text, unique_words[i].usage_count>>]

create_analysis_response(res, t, et, fi, fname, ctitle) ==
    [title |-> extract_title(t, et, res.sentences, fi, fname, ctitle),
     words |-> WordPairs(res.unique_words),
     sentences |-> res.sentences,
     total_words |-> res.total_words,
     total_unique_words |-> res.total_unique_words,
     total_sentences |-> res.total_sentences]

-----------------------------------------------------------------------------
(* TextProcessor and TextAnalysisView.extract_text_from_request *)

\* a value of request.data['text']: a str, or a value of another JSON type
\* (number, list, null ...), of which only the truth value matters
StrValue(t) == [kind |-> "str", truthy |-> t # <<>>, text |-> t]

OtherValue(truthy) == [kind |-> "other", truthy |-> truthy, text |-> <<>>]

\* what a call returns or raises: raised is the exception class or "none"
Returned(ok, msg, t) == [raised |-> "none", success |-> ok, error_message |-> msg, text |-> t]

Raised(cls, msg) == [raised |-> cls, success |-> FALSE, error_message |-> msg, text |-> <<>>]

\* the validation without the minimum of 10 characters
validate_text_input_no_minimum(v) ==
    IF ~v.truthy THEN Returned(FALSE, "No text provided", <<>>)
    ELSE IF v.kind # "str" THEN Raised("AttributeError", "object has no attribute 'strip'")
    ELSE IF Strip(v.text) = <<>> THEN Returned(FALSE, "No text provided", <<>>)
    ELSE Returned(TRUE, "", <<>>)

\* TextProcessor.validate_text_input; a value that is not a str has no strip()
validate_text_input(v) ==
    IF ~v.truthy THEN Returned(FALSE, "No text provided", <<>>)
    ELSE IF v.kind # "str" THEN Raised("AttributeError", "object has no attribute 'strip'")
    ELSE IF Strip(v.text) = <<>> THEN Returned(FALSE, "No text provided", <<>>)
    ELSE IF Len(Strip(v.text)) < 10
         THEN Returned(FALSE, "Text is too short (minimum 10 characters)", <<>>)
    ELSE Returned(TRUE, "", <<>>)

\* TextProcessor.process_text_input: the validation is outside its try block;
\* text is text_info.cleaned_text
process_text_input(v) ==
    LET valid == validate_text_input(v)
    IN  IF valid.raised # "none" THEN valid
        ELSE IF ~valid.success THEN Returned(FALSE, valid.error_message, <<>>)
        ELSE Returned(TRUE, "", Join(Split(v.text)))

\* TextAnalysisView.extract_text_from_request: present says whether the body
\* has the key 'text'
text_extract_text_from_request(present, v) ==
    IF ~present THEN Raised("ValueError", "No text provided")
    ELSE LET processed == process_text_input(v)
         IN  IF processed.raised # "none" THEN processed
             ELSE IF ~processed.success THEN Raised("ValueError", processed.error_message)
             ELSE processed

-----------------------------------------------------------------------------
(* SubtitleProcessor and SubtitleAnalysisView.extract_text_from_request *)

\* ".srt", ".vtt", ".txt", "WEBVTT"
SRT == <<46, 115, 114, 116>>

VTT == <<46, 118, 116, 116>>

TXT == <<46, 116, 120, 116>>

WEBVTT == <<87, 69, 66, 86, 84, 84>>

\* "dd:dd:dd,ddd --> dd:dd:dd,ddd"
SrtTimestampShape == <<100, 100, 58, 100, 100, 58, 100, 100, 44, 100, 100, 100, 32, 45, 45, 62, 32, 100, 100, 58, 100, 100, 58, 100, 100, 44, 100, 100, 100>>

\* "dd:dd:dd.ddd --> dd:dd:dd.ddd"
VttTimestampShape == <<100, 100, 58, 100, 100, 58, 100, 100, 46, 100, 100, 100, 32, 45, 45, 62, 32, 100, 100, 58, 100, 100, 58, 100, 100, 46, 100, 100, 100>>

\* ['.srt', '.vtt', '.txt']
SUPPORTED_EXTENSIONS == {SRT, VTT, TXT}

\* os.path.splitext(p)[1]
splitext_ext(p) == SubSeq(p, Len(splitext_root(p)) + 1, Len(p))

\* SubtitleProcessor.validate_file_extension: the error message, "" if valid
validate_file_extension(fname) ==
    IF fname = <<>> THEN "No filename provided"
    ELSE IF splitext_ext(Lower(fname)) \notin SUPPORTED_EXTENSIONS
         THEN "Unsupported file format"
    ELSE ""

\* UTF-8 of the code points below 2048: one byte below 128, or a lead byte
\* 194..223 followed by one continuation byte 128..191
IsLeadByte(x) == x >= 194 /\ x <= 223

IsContinuationByte(x) == x >= 128 /\ x <= 191

\* bytes.decode('utf-8') does not raise UnicodeDecodeError (for bytes of
\* one- and two-byte sequences; any other byte is invalid here)
IsUtf8(b) ==
    \A i \in 1..Len(b) :
        \/ b[i] < 128
        \/ IsLeadByte(b[i]) /\ i < Len(b) /\ IsContinuationByte(b[i + 1])
        \/ IsContinuationByte(b[i]) /\ i > 1 /\ IsLeadByte(b[i - 1])

\* bytes.decode('utf-8') of valid bytes, from index i on
RECURSIVE decode_utf8_from(_, _)
decode_utf8_from(b, i) ==
    LET leads == {j \in i..Len(b) : IsLeadByte(b[j])}
    IN  IF leads = {} THEN SubSeq(b, i, Len(b))
        ELSE LET l == Min(leads)
             IN  SubSeq(b, i, l - 1) \o <<(b[l] - 192) * 64 + (b[l + 1] - 128)>>
                 \o decode_utf8_from(b, l + 2)

\* bytes.decode('latin-1'): every byte is its own code point; never fails
decode_latin1(b) == [i \in 1..Len(b) |-> b[i]]

\* the content and encoding of SubtitleFileInfo
decode_content(b) ==
    IF IsUtf8(b) THEN [content |-> decode_utf8_from(b, 1), encoding |-> "utf-8"]
    ELSE [content |-> decode_latin1(b), encoding |-> "latin-1"]

\* content.split('\n'): the pieces between the newlines, empty ones included
RECURSIVE split_lines_from(_, _)
split_lines_from(s, start) ==
    LET n == Len(s)
        breaks == {i \in start..n : s[i] = 10}
    IN  IF breaks = {} THEN <<SubSeq(s, start, n)>>
        ELSE <<SubSeq(s, start, Min(breaks) - 1)>> \o split_lines_from(s, Min(breaks) + 1)

\* the end of the match of <[^>]+> at index j, 0 if it does not match there:
\* the first '>' after j, when at least one character lies between
TagEnd(s, j) ==
    LET closes == {k \in (j + 1)..Len(s) : s[k] = 62}
    IN  IF s[j] = 60 /\ closes # {} /\ Min(closes) >= j + 2 THEN Min(closes) ELSE 0

\* re.sub(r'<[^>]+>', '', s) from index i on
RECURSIVE remove_tags_from(_, _)
remove_tags_from(s, i) ==
    LET n == Len(s)
        tags == {j \in i..n : TagEnd(s, j) # 0}
    IN  IF tags = {} THEN SubSeq(s, i, n)
        ELSE SubSeq(s, i, Min(tags) - 1) \o remove_tags_from(s, TagEnd(s, Min(tags)) + 1)

\* re.sub(r'\s+', ' ', s) from index i on
RECURSIVE collapse_whitespace_from(_, _)
collapse_whitespace_from(s, i) ==
    LET n == Len(s)
        ws == {j \in i..n : IsSpace(s[j])}
    IN  IF ws = {} THEN SubSeq(s, i, n)
        ELSE LET b == Min(ws)
                 e == Min({j \in b..n : j = n \/ ~IsSpace(s[j + 1])})
             IN  SubSeq(s, i, b - 1) \o <<32>> \o collapse_whitespace_from(s, e + 1)

\* SubtitleProcessor.clean_html_tags
clean_html_tags(t) == Strip(collapse_whitespace_from(remove_tags_from(t, 1), 1))

\* re.match(r'^\d+$', line) of a stripped line
IsSequenceNumber(line) == line # <<>> /\ \A i \in 1..Len(line) : IsDigit(line[i])

\* the line begins with the shape: the letter d of a shape stands for \d,
\* every other character for itself
BeginsWithShape(line, shape) ==
    /\ Len(line) >= Len(shape)
    /\ \A i \in 1..Len(shape) :
          IF shape[i] = 100 THEN IsDigit(line[i]) ELSE line[i] = shape[i]

\* re.match(r'^\d{2}:\d{2}:\d{2},\d{3} --> \d{2}:\d{2}:\d{2},\d{3}$', line)
IsSrtTimestamp(line) == Len(line) = Len(SrtTimestampShape) /\ BeginsWithShape(line, SrtTimestampShape)

\* re.match(r'^\d{2}:\d{2}:\d{2}\.\d{3} --> \d{2}:\d{2}:\d{2}\.\d{3}', line)
IsVttTimestamp(line) == BeginsWithShape(line, VttTimestampShape)

\* re.match(r'^[A-Za-z]+:', line)
IsVttIdentifier(line) ==
    \E k \in 1..(Len(line) - 1) :
        /\ line[k + 1] = 58
        /\ \A j \in 1..k : (line[j] >= 65 /\ line[j] <= 90) \/ (line[j] >= 97 /\ line[j] <= 122)

\* [cleaned] if cleaned else []
TextLine(line) == LET cleaned_line == clean_html_tags(line)
                  IN  IF cleaned_line # <<>> THEN <<cleaned_line>> ELSE <<>>

\* the loop of extract_text_from_srt with a skip flag an empty line does
\* not clear
RECURSIVE srt_text_lines_flag_kept(_, _, _)
srt_text_lines_flag_kept(lines, i, skip_next) ==
    IF i > Len(lines) THEN <<>>
    ELSE LET line == Strip(lines[i])
         IN  IF line = <<>> THEN srt_text_lines_flag_kept(lines, i + 1, skip_next)
             ELSE IF skip_next THEN srt_text_lines_flag_kept(lines, i + 1, FALSE)
             ELSE IF IsSequenceNumber(line) THEN srt_text_lines_flag_kept(lines, i + 1, TRUE)
             ELSE IF IsSrtTimestamp(line) THEN srt_text_lines_flag_kept(lines, i + 1, skip_next)
             ELSE TextLine(line) \o srt_text_lines_flag_kept(lines, i + 1, skip_next)

\* the loop of extract_text_from_srt from line i on
RECURSIVE srt_text_lines(_, _, _)
srt_text_lines(lines, i, skip_next) ==
    IF i > Len(lines) THEN <<>>
    ELSE LET line == Strip(lines[i])
         IN  IF line = <<>> THEN srt_text_lines(lines, i + 1, FALSE)
             ELSE IF skip_next THEN srt_text_lines(lines, i + 1, FALSE)
             ELSE IF IsSequenceNumber(line) THEN srt_text_lines(lines, i + 1, TRUE)
             ELSE IF IsSrtTimestamp(line) THEN srt_text_lines(lines, i + 1, skip_next)
             ELSE TextLine(line) \o srt_text_lines(lines, i + 1, skip_next)

extract_text_from_srt(content) == Join(srt_text_lines(split_lines_from(content, 1), 1, FALSE))

\* the loop of extract_text_from_vtt from line i on
RECURSIVE vtt_text_lines(_, _, _)
vtt_text_lines(lines, i, skip_next) ==
    IF i > Len(lines) THEN <<>>
    ELSE LET line == Strip(lines[i])
         IN  IF line = <<>> \/ line = WEBVTT THEN vtt_text_lines(lines, i + 1, skip_next)
             ELSE IF IsVttTimestamp(line) THEN vtt_text_lines(lines, i + 1, TRUE)
             ELSE IF skip_next /\ IsVttIdentifier(line) THEN vtt_text_lines(lines, i + 1, skip_next)
             ELSE TextLine(line) \o vtt_text_lines(lines, i + 1, FALSE)

extract_text_from_vtt(content) == Join(vtt_text_lines(split_lines_from(content, 1), 1, FALSE))

\* the loop of extract_text_from_txt from line i on
RECURSIVE txt_text_lines(_, _)
txt_text_lines(lines, i) ==
    IF i > Len(lines) THEN <<>>
    ELSE LET line == Strip(lines[i])
         IN  (IF line # <<>> THEN TextLine(line) ELSE <<>>) \o txt_text_lines(lines, i + 1)

extract_text_from_txt(content) == Join(txt_text_lines(split_lines_from(content, 1), 1))

\* SubtitleProcessor.extract_text_from_subtitles, for a supported extension
extract_text_from_subtitles(content, file_extension) ==
    IF Lower(file_extension) = SRT THEN extract_text_from_srt(content)
    ELSE IF Lower(file_extension) = VTT THEN extract_text_from_vtt(content)
    ELSE extract_text_from_txt(content)

\* BaseProcessor.validate_text_content: the error message, "" if valid
validate_text_content(t) ==
    IF t = <<>> \/ Strip(t) = <<>> THEN "No text content found in the file" ELSE ""

\* SubtitleProcessor.process_file: text is result.extracted_text
subtitle_process_file(b, fname) ==
    IF validate_file_extension(fname) # ""
    THEN Returned(FALSE, validate_file_extension(fname), <<>>)
    ELSE LET extracted_text == extract_text_from_subtitles(decode_content(b).content,
                                                           splitext_ext(Lower(fname)))
         IN  IF validate_text_content(extracted_text) # ""
             THEN Returned(FALSE, validate_text_content(extracted_text), <<>>)
             ELSE Returned(TRUE, "", extracted_text)

\* SubtitleAnalysisView.extract_text_from_request: present says whether
\* request.FILES has the key 'file'
subtitle_extract_text_from_request(present, b, fname) ==
    IF ~present THEN Raised("ValueError", "No file provided")
    ELSE LET processed == subtitle_process_file(b, fname)
         IN  IF ~processed.success THEN Raised("ValueError", processed.error_message)
             ELSE processed

-----------------------------------------------------------------------------
(* Inputs *)

\* the characters of the enumerated texts: a b A 1 - ' . space backspace
Alphabet == {97, 98, 65, 49, 45, 39, 46, 32, 8}

\* all strings over Alphabet of length at most n
RECURSIVE StringsUpTo(_)
StringsUpTo(n) ==
    IF n = 0 THEN {<<>>}
    ELSE LET shorter == StringsUpTo(n - 1)
         IN  shorter \cup {Append(s, c) : s \in shorter, c \in Alphabet}

\* "This is a test. It has many words."
ScenarioText == <<84, 104, 105, 115, 32, 105, 115, 32, 97, 32, 116, 101, 115, 116, 46, 32, 73, 116, 32, 104, 97, 115, 32, 109, 97, 110, 121, 32, 119, 111, 114, 100, 115, 46>>

\* "state-of-the-art"
HyphenText == <<115, 116, 97, 116, 101, 45, 111, 102, 45, 116, 104, 101, 45, 97, 114, 116>>

\* space, tab, newline
BlankText == <<32, 9, 10>>

Texts == StringsUpTo(MaxLen) \cup {ScenarioText, HyphenText, BlankText}

\* a sentence body of n characters: words of six letters, no terminator,
\* no whitespace at either end; the character depends on the position
Body(n) == [i \in 1..n |-> IF i % 7 = 0 /\ i < n THEN 32 ELSE 97 + (i % 26)]

\* the sentence lengths on both sides of the thresholds of extract_title:
\* the fallback yields sentences of 9, 10, 100 and 101 characters, the
\* primary tokenizer, which keeps the terminator, of 10, 11, 101 and 102
TitleLens == {9, 10, 100, 101}

\* texts of k sentences, each Body(n) followed by ". "
RECURSIVE SentenceTexts(_)
SentenceTexts(k) ==
    IF k = 0 THEN {<<>>}
    ELSE LET shorter == SentenceTexts(k - 1)
         IN  shorter \cup {s \o Body(n) \o <<46, 32>> : s \in shorter, n \in TitleLens}

ViewTexts == SentenceTexts(MaxSentences) \cup {BlankText}

\* the characters of the texts handed to clean_text alone: a b, and the
\* whitespace space, tab, newline, no-break space
CleanAlphabet == {97, 98, 32, 9, 10, 160}

\* the words of the texts handed to extract_most_common_words: a, b, B
\* (counted with b) and a-b (matched whole by layer 3, in parts by layer 1)
TopNWords == {<<97>>, <<98>>, <<66>>, <<97, 45, 98>>}

\* the words of ws joined by single spaces
RECURSIVE JoinWords(_, _)
JoinWords(ws, i) ==
    IF i > Len(ws) THEN <<>>
    ELSE (IF i > 1 THEN <<32>> ELSE <<>>) \o ws[i] \o JoinWords(ws, i + 1)

\* the empty text and the texts of one to MaxTopWords words
TopNTexts == {JoinWords(ws, 1) : ws \in UNION {[1..k -> TopNWords] : k \in 0..MaxTopWords}}

\* the characters of the texts handed to a sentence segmenter alone: a b,
\* the space, and the three terminators . ! ?
SegmentAlphabet == {97, 98, 32, 46, 33, 63}

RECURSIVE SegmentStringsUpTo(_)
SegmentStringsUpTo(n) ==
    IF n = 0 THEN {<<>>}
    ELSE LET shorter == SegmentStringsUpTo(n - 1)
         IN  shorter \cup {Append(s, c) : s \in shorter, c \in SegmentAlphabet}

SegmentTexts == SegmentStringsUpTo(MaxSegmentLen)

RECURSIVE CleanStringsUpTo(_)
CleanStringsUpTo(n) ==
    IF n = 0 THEN {<<>>}
    ELSE LET shorter == CleanStringsUpTo(n - 1)
         IN  shorter \cup {Append(s, c) : s \in shorter, c \in CleanAlphabet}

CleanTexts == CleanStringsUpTo(MaxCleanLen)

\* "episode_01.srt"
EpisodeFilename == <<101, 112, 105, 115, 111, 100, 101, 95, 48, 49, 46, 115, 114, 116>>

\* " My title "
PaddedTitle == <<32, 77, 121, 32, 116, 105, 116, 108, 101, 32>>

EndpointTypes == {"text", "subtitle", "epub", "image"}

FileInfos ==
    {[kind |-> "none", title |-> <<>>], [kind |-> "subtitle", title |-> <<>>]} \cup
    {[kind |-> "epub", title |-> ti] : ti \in {<<>>, <<32>>, Body(105)}}

Filenames == {<<>>, EpisodeFilename, <<46, 115, 114, 116>>, Body(105) \o <<46, 115, 114, 116>>}

CustomTitles == {<<>>, <<32, 32>>, PaddedTitle, Body(105)}

\* the texts of the requests to the text view: around the minimum of 10
\* characters, with and without whitespace to trim
RequestTexts ==
    {<<>>, BlankText, ScenarioText, Body(9), Body(10), <<32>> \o Body(9) \o <<32>>,
     <<10>> \o Body(10) \o <<9, 32>>, Body(10) \o <<46, 32>> \o Body(101) \o <<46>>}

NoValue == StrValue(<<>>)

\* a request to TextAnalysisView
TextRequest(present, v, title) ==
    [view |-> "text", present |-> present, value |-> v, title |-> title,
     content |-> <<>>, name |-> <<>>]

\* a request to SubtitleAnalysisView: the uploaded bytes and the file name
SubtitleRequest(present, b, fname) ==
    [view |-> "subtitle", present |-> present, value |-> NoValue, title |-> <<>>,
     content |-> b, name |-> fname]

\* an SRT file of two cues, the first in italics
SrtContent == <<49, 10, 48, 48, 58, 48, 48, 58, 48, 49, 44, 48, 48, 48, 32, 45, 45, 62, 32, 48, 48, 58, 48, 48, 58, 48, 52, 44, 48, 48, 48, 10, 60, 105, 62, 72, 101, 108, 108, 111, 32, 116, 104, 101, 114, 101, 44, 32, 102, 114, 105, 101, 110, 100, 46, 60, 47, 105, 62, 10, 10, 50, 10, 48, 48, 58, 48, 48, 58, 48, 53, 44, 48, 48, 48, 32, 45, 45, 62, 32, 48, 48, 58, 48, 48, 58, 48, 56, 44, 48, 48, 48, 10, 72, 111, 119, 32, 97, 114, 101, 32, 121, 111, 117, 63, 10>>

\* a WebVTT file of one cue
VttContent == <<87, 69, 66, 86, 84, 84, 10, 10, 48, 48, 58, 48, 48, 58, 48, 49, 46, 48, 48, 48, 32, 45, 45, 62, 32, 48, 48, 58, 48, 48, 58, 48, 52, 46, 48, 48, 48, 10, 72, 101, 108, 108, 111, 32, 116, 104, 101, 114, 101, 44, 32, 102, 114, 105, 101, 110, 100, 46, 10>>

\* "<i></i>" and "<b>" on two lines: tags without text
TagsOnlyContent == <<60, 105, 62, 60, 47, 105, 62, 10, 60, 98, 62, 10>>

\* "1" and "2" on two lines
NumbersContent == <<49, 10, 50, 10>>

\* "café au lait" encoded in latin-1 and in utf-8
Latin1Content == <<99, 97, 102, 233, 32, 97, 117, 32, 108, 97, 105, 116>>

Utf8Content == <<99, 97, 102, 195, 169, 32, 97, 117, 32, 108, 97, 105, 116>>

SubtitleContents ==
    {<<>>, <<32, 10, 9, 10>>, SrtContent, VttContent, TagsOnlyContent, NumbersContent,
     Latin1Content, Utf8Content}

\* "", "a.srt", "A.VTT", "a.txt", "a.ass", ".srt"
SubtitleNames ==
    {<<>>, <<97, 46, 115, 114, 116>>, <<65, 46, 86, 84, 84>>, <<97, 46, 116, 120, 116>>, <<97, 46, 97, 115, 115>>,
     <<46, 115, 114, 116>>}

Requests ==
    {TextRequest(FALSE, NoValue, <<>>)} \cup
    {TextRequest(TRUE, v, title) :
        v \in {OtherValue(FALSE), OtherValue(TRUE)} \cup {StrValue(t) : t \in RequestTexts},
        title \in {<<>>, PaddedTitle}} \cup
    {SubtitleRequest(FALSE, <<>>, <<>>)} \cup
    {SubtitleRequest(TRUE, b, fname) : b \in SubtitleContents, fname \in SubtitleNames}

-----------------------------------------------------------------------------
(* The state machine *)

NoResult == [kind |-> "none"]

NoFileInfo == [kind |-> "none", title |-> <<>>]

\* no response yet: the arguments of create_analysis_response are unset
\* no request (the parser or the view method is called directly)
NoRequest == [view |-> "none"]

ViewInit ==
    /\ request = NoRequest
    /\ status = 0
    /\ endpoint_type = "text"
    /\ file_info = NoFileInfo
    /\ filename = <<>>
    /\ custom_title = <<>>
    /\ response = NoResult

\* what import nltk and nltk.data.find('tokenizers/punkt') do in the constructor
PunktProbes == {"found", "ImportError", "LookupError"}

\* self.use_nltk after TextParser(use_nltk=use): cleared when the probe fails
_ensure_nltk_available(use, probe) == use /\ probe = "found"

\* no ImageAnalysisSession: no batch of images was uploaded
NoSession == [status |-> "none"]

\* no request was made to the results endpoint
NoResponse == [status |-> 0, session_id |-> ""]

\* the arguments of the calls that are not made keep their defaults
OtherIdle ==
    /\ min_frequency = 2
    /\ statistics = NoResult
    /\ temp_files = {}

BatchIdle ==
    /\ fate = <<>>
    /\ task = <<>>
    /\ register = <<>>
    /\ report = <<>>
    /\ session = NoSession
    /\ result_rows = <<>>
    /\ clock = 1
    /\ results_response = NoResponse

ParserInit ==
    /\ top_n = 10
    /\ cleaned = <<>>
    /\ method = "none"
    /\ calls = <<>>
    /\ exception = "none"
    /\ result = NoResult
    /\ BatchIdle
    /\ OtherIdle

\* a TextParser and the arguments of one analyze_text call
Init ==
    /\ pc = "start"
    /\ text \in Texts
    /\ min_word_length \in 1..MaxMinLen
    /\ use_nltk \in {_ensure_nltk_available(use, probe) : use \in BOOLEAN, probe \in PunktProbes}
    /\ ParserInit
    /\ ViewInit

\* BaseAnalysisView.analyze_text: TextParser(use_nltk=True), min_word_length=1
InitView ==
    /\ pc = "start"
    /\ text \in ViewTexts
    /\ min_word_length = 1
    /\ use_nltk \in {_ensure_nltk_available(TRUE, probe) : probe \in PunktProbes}
    /\ ParserInit
    /\ ViewInit

\* parser.analyze_text(text, min_word_length)
AnalyzeText ==
    /\ pc = "start"
    /\ \E tok \in TokenizerOutcomes(clean_text(text), use_nltk) :
          LET failed == analyze_text_raises(text, use_nltk, tok)
          IN  /\ exception' = IF TokenizerRaised(clean_text(text), use_nltk, tok)
                              THEN tok.exception ELSE "none"
              /\ result' = IF failed THEN NoResult
                           ELSE analyze_text(text, min_word_length, use_nltk, tok)
              /\ method' = IF clean_text(text) = <<>> \/ failed THEN "none"
                           ELSE SegmentationMethod(use_nltk, tok)
              /\ calls' = IF failed THEN <<"clean_text", "extract_sentences">>
                          ELSE analyze_text_calls(text)
              /\ pc' = IF failed THEN "failed" ELSE "analyzed"
    /\ UNCHANGED <<request, status, text, cleaned, min_word_length, top_n, use_nltk,
                   endpoint_type, file_info, filename, custom_title, response, otherVars>>

\* self.create_analysis_response(result, text, endpoint_type, file_info, filename, custom_title)
\* (a Response without a status argument has status 200)
CreateAnalysisResponseWith(et, fi, fname, ctitle) ==
    /\ pc = "analyzed"
    /\ endpoint_type' = et
    /\ file_info' = fi
    /\ filename' = fname
    /\ custom_title' = ctitle
    /\ response' = create_analysis_response(result, text, et, fi, fname, ctitle)
    /\ status' = 200
    /\ pc' = "responded"
    /\ UNCHANGED <<request, text, cleaned, min_word_length, top_n, use_nltk, method, calls,
                   exception, result, otherVars>>

\* BaseAnalysisView.analyze_text called with any arguments
CreateAnalysisResponse ==
    \E et \in EndpointTypes, fi \in FileInfos, fname \in Filenames, ctitle \in CustomTitles :
        CreateAnalysisResponseWith(et, fi, fname, ctitle)

Next == AnalyzeText

NextView == AnalyzeText \/ CreateAnalysisResponse

Spec == Init /\ [][Next]_vars

SpecView == InitView /\ [][NextView]_vars

\* a TextParser and the argument of clean_text
InitClean ==
    /\ pc = "start"
    /\ text \in CleanTexts
    /\ min_word_length = 1
    /\ use_nltk \in {_ensure_nltk_available(TRUE, probe) : probe \in PunktProbes}
    /\ ParserInit
    /\ ViewInit

\* parser.clean_text(text), then parser.clean_text of what it returned
CleanText ==
    /\ pc \in {"start", "cleaned"}
    /\ cleaned' = clean_text(IF pc = "start" THEN text ELSE cleaned)
    /\ pc' = IF pc = "start" THEN "cleaned" ELSE "recleaned"
    /\ UNCHANGED <<request, status, text, min_word_length, top_n, use_nltk, method, calls,
                   exception, result, endpoint_type, file_info, filename, custom_title,
                   response, otherVars>>

NextClean == CleanText

SpecClean == InitClean /\ [][NextClean]_vars

\* a request received by TextAnalysisView.post or SubtitleAnalysisView.post
InitRequest ==
    /\ pc = "received"
    /\ request \in Requests
    /\ status = 0
    /\ text = <<>>
    /\ min_word_length = 1
    /\ use_nltk \in {_ensure_nltk_available(TRUE, probe) : probe \in PunktProbes}
    /\ ParserInit
    /\ endpoint_type = request.view
    /\ file_info = NoFileInfo
    /\ filename = <<>>
    /\ custom_title = <<>>
    /\ response = NoResult

\* what post does with the exception extract_text_from_request raised:
\* ValueError is the validation error, anything else is unexpected
ErrorStatus(cls) == IF cls = "ValueError" THEN 400 ELSE 500

\* post up to the call of self.analyze_text: extract_text_from_request, and
\* the error Response when it raises
ExtractTextFromRequest ==
    /\ pc = "received"
    /\ LET extracted ==
              IF request.view = "text"
              THEN text_extract_text_from_request(request.present, request.value)
              ELSE subtitle_extract_text_from_request(request.present, request.content,
                                                      request.name)
       IN  IF extracted.raised # "none"
           THEN /\ status' = ErrorStatus(extracted.raised)
                /\ response' = [error |-> extracted.error_message]
                /\ pc' = "responded"
                /\ UNCHANGED <<text, file_info, filename, custom_title>>
           ELSE /\ text' = extracted.text
                /\ custom_title' = request.title
                /\ filename' = request.name
                /\ file_info' = IF request.view = "subtitle"
                                THEN [kind |-> "subtitle", title |-> <<>>]
                                ELSE NoFileInfo
                /\ pc' = "start"
                /\ UNCHANGED <<status, response>>
    /\ UNCHANGED <<request, cleaned, min_word_length, top_n, use_nltk, method, calls, exception,
                   result, endpoint_type, otherVars>>

\* the create_analysis_response call of self.analyze_text, with the arguments
\* post passed
Respond == CreateAnalysisResponseWith(endpoint_type, file_info, filename, custom_title)

NextRequest == ExtractTextFromRequest \/ AnalyzeText \/ Respond

SpecRequest == InitRequest /\ [][NextRequest]_vars

\* a TextParser and the argument of one call of a sentence segmenter, not
\* normalised first
InitSegment ==
    /\ pc = "start"
    /\ text \in SegmentTexts
    /\ min_word_length = 1
    /\ use_nltk \in {_ensure_nltk_available(TRUE, probe) : probe \in PunktProbes}
    /\ ParserInit
    /\ ViewInit

\* parser.extract_sentences(text)
ExtractSentences ==
    /\ pc = "start"
    /\ \E tok \in TokenizerOutcomes(text, use_nltk) :
          LET failed == extract_sentences_raises(text, use_nltk, tok)
          IN  /\ exception' = IF TokenizerRaised(text, use_nltk, tok)
                              THEN tok.exception ELSE "none"
              /\ result' = IF failed THEN NoResult
                           ELSE [kind |-> "sentences",
                                 sentences |-> extract_sentences(text, use_nltk, tok)]
              /\ method' = IF text = <<>> \/ failed THEN "none"
                           ELSE SegmentationMethod(use_nltk, tok)
              /\ pc' = IF failed THEN "failed" ELSE "segmented"
    /\ calls' = <<"extract_sentences">>
    /\ UNCHANGED <<request, status, text, cleaned, min_word_length, top_n, use_nltk,
                   endpoint_type, file_info, filename, custom_title, response, otherVars>>

\* tokenize_sentences(text) of src/parser/views/base.py
TokenizeSentences ==
    /\ pc = "start"
    /\ \E tok \in sent_tokenize(text) :
          LET failed == tokenize_sentences_raises(tok)
          IN  /\ exception' = IF tok.raised THEN tok.exception ELSE "none"
              /\ result' = IF failed THEN NoResult
                           ELSE [kind |-> "sentences",
                                 sentences |-> tokenize_sentences(text, tok)]
              /\ method' = IF failed THEN "none"
                           ELSE IF tok.raised THEN "fallback" ELSE "nltk"
              /\ pc' = IF failed THEN "failed" ELSE "segmented"
    /\ calls' = <<"tokenize_sentences">>
    /\ UNCHANGED <<request, status, text, cleaned, min_word_length, top_n, use_nltk,
                   endpoint_type, file_info, filename, custom_title, response, otherVars>>

NextSegment == ExtractSentences \/ TokenizeSentences

SpecSegment == InitSegment /\ [][NextSegment]_vars

\* a TextParser and the arguments of one extract_most_common_words call
InitTopN ==
    /\ pc = "start"
    /\ text \in TopNTexts
    /\ min_word_length \in 1..MaxMinLen
    /\ top_n \in 0..MaxTopN
    /\ use_nltk \in {_ensure_nltk_available(TRUE, probe) : probe \in PunktProbes}
    /\ cleaned = <<>>
    /\ method = "none"
    /\ calls = <<>>
    /\ exception = "none"
    /\ result = NoResult
    /\ BatchIdle
    /\ OtherIdle
    /\ ViewInit

\* parser.extract_most_common_words(text, top_n, min_word_length)
ExtractMostCommonWords ==
    /\ pc = "start"
    /\ result' = [kind |-> "most_common",
                  words |-> extract_most_common_words(text, top_n, min_word_length)]
    /\ calls' = IF text = <<>> THEN <<>> ELSE <<"clean_text", "extract_words">>
    /\ pc' = "counted"
    /\ UNCHANGED <<request, status, text, cleaned, min_word_length, top_n, use_nltk, method,
                   exception, endpoint_type, file_info, filename, custom_title, response,
                   otherVars>>

NextTopN == ExtractMostCommonWords

SpecTopN == InitTopN /\ [][NextTopN]_vars

\* a TextParser and the arguments of one extract_words_by_frequency call
InitFrequency ==
    /\ pc = "start"
    /\ text \in TopNTexts
    /\ min_word_length \in 1..MaxMinLen
    /\ min_frequency \in 1..MaxMinFrequency
    /\ top_n = 10
    /\ statistics = NoResult
    /\ temp_files = {}
    /\ use_nltk \in {_ensure_nltk_available(TRUE, probe) : probe \in PunktProbes}
    /\ cleaned = <<>>
    /\ method = "none"
    /\ calls = <<>>
    /\ exception = "none"
    /\ result = NoResult
    /\ BatchIdle
    /\ ViewInit

\* parser.extract_words_by_frequency(text, min_frequency, min_word_length)
ExtractWordsByFrequency ==
    /\ pc = "start"
    /\ result' = [kind |-> "by_frequency",
                  words |-> extract_words_by_frequency(text, min_frequency, min_word_length)]
    /\ calls' = IF text = <<>> THEN <<>> ELSE <<"clean_text", "extract_words">>
    /\ pc' = "filtered"
    /\ UNCHANGED <<request, status, text, cleaned, min_word_length, top_n, use_nltk, method,
                   exception, endpoint_type, file_info, filename, custom_title, response,
                   otherVars>>

NextFrequency == ExtractWordsByFrequency

SpecFrequency == InitFrequency /\ [][NextFrequency]_vars

\* parser.get_text_statistics(text, min_word_length) on the parser and the
\* arguments of the analyze_text call before it.  sent_tokenize is a
\* function of the text: called on the same text it does what it did during
\* analyze_text (it raises the same exception or returns the same list).
GetTextStatistics ==
    /\ pc = "analyzed"
    /\ \E tok \in TokenizerOutcomes(clean_text(text), use_nltk) :
          /\ (IF TokenizerRaised(clean_text(text), use_nltk, tok)
              THEN tok.exception ELSE "none") = exception
          /\ text # <<>> => extract_sentences(clean_text(text), use_nltk, tok) = result.sentences
          /\ statistics' = get_text_statistics(text, min_word_length, use_nltk, tok)
    /\ pc' = "measured"
    /\ UNCHANGED <<request, status, text, cleaned, min_word_length, top_n, use_nltk, method,
                   calls, exception, result, endpoint_type, file_info, filename, custom_title,
                   response, batchVars, min_frequency, temp_files>>

NextStatistics == AnalyzeText \/ GetTextStatistics

SpecStatistics == Init /\ [][NextStatistics]_vars

-----------------------------------------------------------------------------
(* The two SRT extractions: SubtitleProcessor.extract_text_from_srt and    *)
(* the '.srt' branch of SubtitleAnalysisView._extract_text_from_subtitles  *)
(* of epub_parser/views.py, which appends the line as it is                *)

\* the '.srt' loop of _extract_text_from_subtitles from line i on
RECURSIVE view_srt_text_lines(_, _, _)
view_srt_text_lines(lines, i, skip_next) ==
    IF i > Len(lines) THEN <<>>
    ELSE LET line == Strip(lines[i])
         IN  IF line = <<>> THEN view_srt_text_lines(lines, i + 1, FALSE)
             ELSE IF skip_next THEN view_srt_text_lines(lines, i + 1, FALSE)
             ELSE IF IsSequenceNumber(line) THEN view_srt_text_lines(lines, i + 1, TRUE)
             ELSE IF IsSrtTimestamp(line) THEN view_srt_text_lines(lines, i + 1, skip_next)
             ELSE <<line>> \o view_srt_text_lines(lines, i + 1, skip_next)

\* text_lines of either extraction
srt_lines_of(source, content) ==
    IF source = "SubtitleProcessor"
    THEN srt_text_lines(split_lines_from(content, 1), 1, FALSE)
    ELSE view_srt_text_lines(split_lines_from(content, 1), 1, FALSE)

\* "00:00:01,000 --> 00:00:04,000"
SrtTimestampLine == SubSeq(SrtContent, 3, 31)

\* the lines SRT contents are made of: "", " ", "1", "12", a timestamp,
\* "a", " b1", "<i>", "<i>a"
SrtLines ==
    {<<>>, <<32>>, <<49>>, <<49, 50>>, SrtTimestampLine, <<97>>, <<32, 98, 49>>,
     <<60, 105, 62>>, <<60, 105, 62, 97>>}

\* '\n'.join(lines)
RECURSIVE JoinLinesFrom(_, _)
JoinLinesFrom(lines, i) ==
    IF i > Len(lines) THEN <<>>
    ELSE IF i = Len(lines) THEN lines[i]
    ELSE lines[i] \o <<10>> \o JoinLinesFrom(lines, i + 1)

\* the contents of at most MaxSrtLines lines
SrtContents ==
    {JoinLinesFrom(lines, 1) : lines \in UNION {[1..n -> SrtLines] : n \in 1..MaxSrtLines}}

\* an SRT content about to be handed to one of the two extractions
InitSrt ==
    /\ pc = "received"
    /\ request \in [view : {"srt"}, content : SrtContents]
    /\ status = 0
    /\ text = <<>>
    /\ min_word_length = 1
    /\ use_nltk = FALSE
    /\ ParserInit
    /\ endpoint_type = "subtitle"
    /\ file_info = NoFileInfo
    /\ filename = <<>>
    /\ custom_title = <<>>
    /\ response = NoResult

\* one of the two extractions: result keeps text_lines, text their join
ExtractSrt(source) ==
    /\ pc = "received"
    /\ request.view = "srt"
    /\ result' = [kind |-> "srt", source |-> source,
                  text_lines |-> srt_lines_of(source, request.content)]
    /\ text' = Join(srt_lines_of(source, request.content))
    /\ pc' = "extracted"
    /\ UNCHANGED <<request, status, cleaned, min_word_length, top_n, use_nltk, method, calls,
                   exception, endpoint_type, file_info, filename, custom_title, response,
                   otherVars>>

\* SubtitleProcessor.extract_text_from_srt
ExtractTextFromSrt == ExtractSrt("SubtitleProcessor")

\* SubtitleAnalysisView._extract_text_from_subtitles(content, '.srt')
ExtractTextFromSubtitles == ExtractSrt("SubtitleAnalysisView")

NextSrt == ExtractTextFromSrt \/ ExtractTextFromSubtitles

SpecSrt == InitSrt /\ [][NextSrt]_vars

-----------------------------------------------------------------------------
(* EpubProcessor.process_file                                              *)
(*                                                                         *)
(* read_epub_file writes the upload to a temporary file created with       *)
(* delete=False and has ebooklib read it; process_file extracts the text   *)
(* and unlinks the file.  tempfile, ebooklib, BeautifulSoup and os.unlink  *)
(* are external: each may raise, and an upload carries which one does.     *)

\* ".epub"
EPUB == <<46, 101, 112, 117, 98>>

\* str.endswith
endswith(s, suffix) ==
    /\ Len(s) >= Len(suffix)
    /\ SubSeq(s, Len(s) - Len(suffix) + 1, Len(s)) = suffix

\* EpubProcessor.validate_file_extension: the error message, "" if valid
epub_validate_file_extension(fname) ==
    IF fname = <<>> THEN "No filename provided"
    ELSE IF ~endswith(Lower(fname), EPUB) THEN "File must be an EPUB file"
    ELSE ""

\* the operation that raises while an upload is processed:
\* tempfile.NamedTemporaryFile (no file is created), temp_file.write (the
\* file exists), epub.read_epub, extract_text_from_epub (get_items,
\* get_content, BeautifulSoup); "none" when none raises
EpubRaises == {"none", "NamedTemporaryFile", "write", "read_epub", "extract_text"}

\* the file names of the uploads: "", "a.epub", "a.EPUB", "a.txt", ".epub", "epub"
EpubNames ==
    {<<>>, <<97>> \o EPUB, <<97, 46, 69, 80, 85, 66>>, <<97, 46, 116, 120, 116>>, EPUB,
     <<101, 112, 117, 98>>}

\* what extract_text_from_epub returns for the uploads: "", " ", "a "
EpubTexts == {<<>>, <<32>>, <<97, 32>>}

\* the path tempfile.NamedTemporaryFile(delete=False, suffix='.epub') gives
temp_file_path == "temp_file_path"

\* os.unlink(path): the file is gone unless unlink raises
unlink(files, path, unlink_raises) == IF unlink_raises THEN files ELSE files \ {path}

\* read_epub_file: success, error_message, and the temporary files that
\* exist when it returns
read_epub_file(fname, raises) ==
    IF epub_validate_file_extension(fname) # ""
    THEN [success |-> FALSE, error_message |-> epub_validate_file_extension(fname),
          files |-> {}]
    ELSE IF raises = "NamedTemporaryFile"
    THEN [success |-> FALSE, error_message |-> "Failed to read EPUB file", files |-> {}]
    ELSE IF raises \in {"write", "read_epub"}
    THEN [success |-> FALSE, error_message |-> "Failed to read EPUB file",
          files |-> {temp_file_path}]
    ELSE [success |-> TRUE, error_message |-> "", files |-> {temp_file_path}]

\* process_file: the ProcessingResult and the temporary files that exist
\* when it returns
process_file(fname, raises, unlink_raises, extracted_text) ==
    LET read == read_epub_file(fname, raises)
    IN  IF ~read.success
        THEN [success |-> FALSE, error_message |-> read.error_message, text |-> <<>>,
              files |-> read.files]
        ELSE IF raises = "extract_text"
        THEN [success |-> FALSE, error_message |-> "Failed to extract text from EPUB",
              text |-> <<>>, files |-> unlink(read.files, temp_file_path, unlink_raises)]
        ELSE IF validate_text_content(extracted_text) # ""
        THEN [success |-> FALSE, error_message |-> validate_text_content(extracted_text),
              text |-> <<>>, files |-> unlink(read.files, temp_file_path, unlink_raises)]
        ELSE [success |-> TRUE, error_message |-> "", text |-> extracted_text,
              files |-> unlink(read.files, temp_file_path, unlink_raises)]

\* the uploads handed to process_file
EpubUploads ==
    [view : {"epub"}, name : EpubNames, raises : EpubRaises, unlink_raises : BOOLEAN,
     extracted_text : EpubTexts]

\* an upload about to be handed to EpubProcessor.process_file
InitEpub ==
    /\ pc = "received"
    /\ request \in EpubUploads
    /\ status = 0
    /\ text = <<>>
    /\ min_word_length = 1
    /\ use_nltk = FALSE
    /\ ParserInit
    /\ endpoint_type = "epub"
    /\ file_info = NoFileInfo
    /\ filename = <<>>
    /\ custom_title = <<>>
    /\ response = NoResult

\* EpubProcessor.process_file
ProcessFile ==
    /\ pc = "received"
    /\ request.view = "epub"
    /\ LET processed == process_file(request.name, request.raises, request.unlink_raises,
                                     request.extracted_text)
       IN  /\ response' = [success |-> processed.success,
                           error_message |-> processed.error_message]
           /\ text' = processed.text
           /\ temp_files' = temp_files \cup processed.files
    /\ pc' = "processed"
    /\ UNCHANGED <<request, status, cleaned, min_word_length, top_n, use_nltk, method, calls,
                   exception, result, endpoint_type, file_info, filename, custom_title,
                   batchVars, min_frequency, statistics>>

NextEpub == ProcessFile

SpecEpub == InitEpub /\ [][NextEpub]_vars

-----------------------------------------------------------------------------
(* BatchImageAnalysisView.post and _process_batch_async                    *)
(*                                                                         *)
(* post creates the ImageAnalysisSession and calls _process_batch_async,   *)
(* which submits process_single_image once per image to a thread pool,     *)
(* waits for every future and then calls session.mark_completed().  The    *)
(* worker threads share the one session object; session.x += 1 reads the   *)
(* attribute and writes it back in two steps another thread can separate.  *)
(* The operations process_single_image runs inside its try may raise: each *)
(* image carries the first one that does.                                  *)

\* the operation of process_single_image that raises for an image: writing
\* the temporary file, the OCR (processor creation, process_image,
\* get_processing_summary), ImageAnalysisResult.objects.create, the
\* session.save() after the success counters; "ok" when none raises
Fates == {"ok", "tempfile", "ocr", "store", "save"}

\* the uploads of one request: between none and MaxImages images
Batches == UNION {[1..n -> Fates] : n \in 0..MaxImages}

\* BatchImageAnalysisRequestSerializer: images has min_length=1, max_length=100
serializer_is_valid(images) == Len(images) >= 1 /\ Len(images) <= 100

\* ThreadPoolExecutor(max_workers=min(4, len(images)))
max_workers(images) == IF Len(images) < 4 THEN Len(images) ELSE 4

\* a DateTimeField that holds NULL: timezone.now() is positive
None == 0

\* ImageAnalysisSession.objects.create(total_images=len(images), ...): the
\* status, started_at and the counters take the defaults of the model
NewSession(images, now) ==
    [status |-> "pending", total_images |-> Len(images), processed_images |-> 0,
     successful_images |-> 0, failed_images |-> 0, started_at |-> now,
     completed_at |-> None]

\* the methods the view classes of batch_image.py define; their base class
\* APIView defines none of these names
Defines ==
    [BatchImageAnalysisView |-> {"post", "_process_batch_async"},
     BatchImageAnalysisStatusView |-> {"get"},
     BatchImageAnalysisResultsView |-> {"get", "_create_processor_with_credentials"}]

\* self.name on an instance of the class raises AttributeError
AttributeError(class, name) == name \notin Defines[class]

\* process_single_image reaches ImageAnalysisResult.objects.create and the
\* row is created: the temporary file was written, self.
\* _create_processor_with_credentials resolved and neither the OCR nor the
\* creation raised
ResultStored(f) ==
    /\ f \notin {"tempfile", "ocr", "store"}
    /\ ~AttributeError("BatchImageAnalysisView", "_create_processor_with_credentials")

\* process_single_image without its except Exception
AfterTry_no_handler(f) == IF ResultStored(f) THEN "ok_read_processed" ELSE "raised"

\* where process_single_image continues after the temporary file, the OCR
\* and the creation of the result row: an exception raised there is caught
\* by except Exception, otherwise the success counters are updated
AfterTry(f) == IF ResultStored(f) THEN "ok_read_processed" ELSE "fail_read_processed"

\* a row of the ImageAnalysisResult table: created_at defaults to
\* timezone.now(); the table has no column for a session, owner records
\* who created the row
NewResult(owner, now) == [owner |-> owner, created_at |-> now]

\* ImageAnalysisResult.objects.filter(created_at__gte=started_at,
\* created_at__lte=completed_at).order_by('created_at')
FilterByWindow(rows, started_at, completed_at) ==
    LET in_window(row) == row.created_at >= started_at /\ row.created_at <= completed_at
    IN  SelectSeq(rows, in_window)

\* the rows other requests created
OtherRows == SelectSeq(result_rows, LAMBDA row : row.owner = "other")

\* the attribute of the session a position of process_single_image reads or writes
CounterAt(position) ==
    CASE position \in {"ok_read_processed", "ok_write_processed",
                       "fail_read_processed", "fail_write_processed"} -> "processed_images"
      [] position \in {"ok_read_successful", "ok_write_successful"} -> "successful_images"
      [] position \in {"fail_read_failed", "fail_write_failed"} -> "failed_images"

ReadPositions == {"ok_read_processed", "ok_read_successful",
                  "fail_read_processed", "fail_read_failed"}

WritePositions == {"ok_write_processed", "ok_write_successful",
                   "fail_write_processed", "fail_write_failed"}

\* the statement after the one at a position
AfterPosition(position) ==
    CASE position = "ok_read_processed" -> "ok_write_processed"
      [] position = "ok_write_processed" -> "ok_read_successful"
      [] position = "ok_read_successful" -> "ok_write_successful"
      [] position = "ok_write_successful" -> "ok_save"
      [] position = "fail_read_processed" -> "fail_write_processed"
      [] position = "fail_write_processed" -> "fail_read_failed"
      [] position = "fail_read_failed" -> "fail_write_failed"
      [] position = "fail_write_failed" -> "fail_save"

\* the futures that have a result or an exception
Finished == {"done", "raised"}

\* the images whose process_single_image call occupies a worker thread
Running == {i \in DOMAIN task : task[i] \notin {"uploaded", "submitted"} \cup Finished}

\* a request received by BatchImageAnalysisView.post
InitBatch ==
    /\ pc = "received"
    /\ request = [view |-> "batch_image"]
    /\ status = 0
    /\ text = <<>>
    /\ min_word_length = 1
    /\ top_n = 10
    /\ use_nltk = FALSE
    /\ cleaned = <<>>
    /\ method = "none"
    /\ calls = <<>>
    /\ exception = "none"
    /\ result = NoResult
    /\ endpoint_type = "batch_image"
    /\ file_info = NoFileInfo
    /\ filename = <<>>
    /\ custom_title = <<>>
    /\ response = NoResult
    /\ fate \in Batches
    /\ task = [i \in DOMAIN fate |-> "uploaded"]
    /\ register = [i \in DOMAIN fate |-> 0]
    /\ report = [i \in DOMAIN fate |-> "none"]
    /\ session = NoSession
    /\ result_rows = <<>>
    /\ clock = 1
    /\ results_response = NoResponse
    /\ OtherIdle

\* post up to the executor.submit calls: the serializer's verdict, the new
\* session, one future per image
PostBatch ==
    /\ pc = "received"
    /\ IF serializer_is_valid(fate)
       THEN /\ session' = NewSession(fate, clock)
            /\ clock' = clock + 1
            /\ task' = [i \in DOMAIN fate |-> "submitted"]
            /\ pc' = "processing"
            /\ UNCHANGED <<status, response>>
       ELSE /\ status' = 400
            /\ response' = [success |-> FALSE, error |-> "serializer.errors"]
            /\ pc' = "responded"
            /\ UNCHANGED <<session, task, clock>>
    /\ UNCHANGED <<analysisVars, fate, register, report, result_rows, results_response>>

\* a free worker thread of the pool takes the image's process_single_image call
StartImage(i) ==
    /\ pc = "processing"
    /\ task[i] = "submitted"
    /\ Cardinality(Running) < max_workers(fate)
    /\ task' = [task EXCEPT ![i] = "try"]
    /\ UNCHANGED <<pc, status, response, analysisVars, fate, register, report, session,
                   result_rows, clock, results_response>>

\* the temporary file, the OCR and the result row of one image
ProcessImage(i) ==
    /\ task[i] = "try"
    /\ task' = [task EXCEPT ![i] = AfterTry(fate[i])]
    /\ report' = [report EXCEPT ![i] = IF AfterTry(fate[i]) = "raised" THEN "raised" ELSE @]
    /\ IF ResultStored(fate[i])
       THEN /\ result_rows' = Append(result_rows, NewResult("session", clock))
            /\ clock' = clock + 1
       ELSE UNCHANGED <<result_rows, clock>>
    /\ UNCHANGED <<pc, status, response, analysisVars, fate, register, session,
                   results_response>>

\* the read of session.x += 1
ReadCounter(i) ==
    /\ task[i] \in ReadPositions
    /\ register' = [register EXCEPT ![i] = session[CounterAt(task[i])]]
    /\ task' = [task EXCEPT ![i] = AfterPosition(@)]
    /\ UNCHANGED <<pc, status, response, analysisVars, fate, report, session,
                   result_rows, clock, results_response>>

\* the write of session.x += 1
WriteCounter(i) ==
    /\ task[i] \in WritePositions
    /\ session' = [session EXCEPT ![CounterAt(task[i])] = register[i] + 1]
    /\ register' = [register EXCEPT ![i] = 0]
    /\ task' = [task EXCEPT ![i] = AfterPosition(@)]
    /\ UNCHANGED <<pc, status, response, analysisVars, fate, report,
                   result_rows, clock, results_response>>

\* session.save() and the return that follows it; a save that raises on the
\* success path enters the except Exception of process_single_image
SaveSession(i) ==
    /\ task[i] \in {"ok_save", "fail_save"}
    /\ IF task[i] = "ok_save" /\ fate[i] = "save"
       THEN /\ task' = [task EXCEPT ![i] = "fail_read_processed"]
            /\ UNCHANGED report
       ELSE /\ task' = [task EXCEPT ![i] = "done"]
            /\ report' = [report EXCEPT ![i] = IF task[i] = "ok_save" THEN "success"
                                                ELSE "failure"]
    /\ UNCHANGED <<pc, status, response, analysisVars, fate, register, session,
                   result_rows, clock, results_response>>

\* the as_completed loop: future.result() returns the dict or raises what
\* the call raised, and except Exception logs it
LoopCatches(outcome) == TRUE

\* the end of the with ThreadPoolExecutor block, session.mark_completed()
\* and the Response of post; an exception leaving the loop reaches the
\* except Exception of post
MarkCompleted ==
    /\ pc = "processing"
    /\ \A i \in DOMAIN task : task[i] \in Finished
    /\ IF \A i \in DOMAIN report : LoopCatches(report[i])
       THEN /\ session' = [session EXCEPT !.status = "completed", !.completed_at = clock]
            /\ clock' = clock + 1
            /\ status' = 202
            /\ response' = [success |-> TRUE, total_images |-> Len(fate)]
       ELSE /\ status' = 500
            /\ response' = [success |-> FALSE, error |-> "Batch processing failed"]
            /\ UNCHANGED <<session, clock>>
    /\ pc' = "responded"
    /\ UNCHANGED <<analysisVars, fate, task, register, report, result_rows, results_response>>

\* a row of the ImageAnalysisResult table created by anything but this
\* session's workers (the process_single_image of another batch session),
\* at any moment
CreateResultElsewhere ==
    /\ Len(OtherRows) < MaxOtherResults
    /\ result_rows' = Append(result_rows, NewResult("other", clock))
    /\ clock' = clock + 1
    /\ UNCHANGED <<pc, status, response, analysisVars, fate, task, register, report, session,
                   results_response>>

\* the session_id parameter of a request to the results endpoint: absent,
\* this session's, or one no session has
SessionIds == {"", "session", "unknown"}

\* BatchImageAnalysisResultsView.get without its check of session.status
GetResultsResponse_any_status(session_id) ==
    IF session_id = ""
    THEN [status |-> 400, session_id |-> session_id, error |-> "Session ID is required"]
    ELSE IF session_id # "session" \/ session = NoSession
    THEN [status |-> 404, session_id |-> session_id, error |-> "Session not found"]
    ELSE [status |-> 200, session_id |-> session_id,
          results |-> FilterByWindow(result_rows, session.started_at, session.completed_at)]

\* BatchImageAnalysisResultsView.get
GetResultsResponse(session_id) ==
    IF session_id = ""
    THEN [status |-> 400, session_id |-> session_id, error |-> "Session ID is required"]
    ELSE IF session_id # "session" \/ session = NoSession
    THEN [status |-> 404, session_id |-> session_id, error |-> "Session not found"]
    ELSE IF session.status # "completed"
    THEN [status |-> 400, session_id |-> session_id, error |-> "Session is not completed yet"]
    ELSE [status |-> 200, session_id |-> session_id,
          results |-> FilterByWindow(result_rows, session.started_at, session.completed_at)]

\* a request to the results endpoint, at any moment
GetResults ==
    /\ \E session_id \in SessionIds : results_response' = GetResultsResponse(session_id)
    /\ UNCHANGED <<pc, status, response, analysisVars, fate, task, register, report, session,
                   result_rows, clock>>

NextBatch ==
    \/ PostBatch
    \/ \E i \in DOMAIN task : StartImage(i)
    \/ \E i \in DOMAIN task : ProcessImage(i)
    \/ \E i \in DOMAIN task : ReadCounter(i)
    \/ \E i \in DOMAIN task : WriteCounter(i)
    \/ \E i \in DOMAIN task : SaveSession(i)
    \/ MarkCompleted

SpecBatch == InitBatch /\ [][NextBatch]_vars

\* for the results of a session an image either has its result row
\* created or not
ResultFates == {"ok", "store"}

\* a batch upload, other requests creating result rows and requests to the
\* results endpoint
InitResults == InitBatch /\ \A i \in DOMAIN fate : fate[i] \in ResultFates

NextResults ==
    \/ NextBatch
    \/ CreateResultElsewhere
    \/ GetResults

SpecResults == InitResults /\ [][NextResults]_vars

-----------------------------------------------------------------------------
(* Claims about TextParser.analyze_text (specification Spec) *)

\* the sum of usage_count over unique_words
RECURSIVE SumCounts(_, _)
SumCounts(uw, i) == IF i > Len(uw) THEN 0 ELSE uw[i].usage_count + SumCounts(uw, i + 1)

\* C1: for every text and min_word_length, the result of analyze_text has
\* total_words equal to the sum of usage_count over unique_words,
\* total_unique_words equal to the length of unique_words and
\* total_sentences equal to the length of sentences.
C1_CountConservation ==
    pc = "analyzed" =>
        /\ result.total_words = SumCounts(result.unique_words, 1)
        /\ result.total_unique_words = Len(result.unique_words)
        /\ result.total_sentences = Len(result.sentences)

\* a result with a word counted more than once, several words and a sentence
C1_Witness ==
    /\ pc = "analyzed"
    /\ result.total_words >= 3
    /\ Len(result.unique_words) >= 2
    /\ \E i \in 1..Len(result.unique_words) : result.unique_words[i].usage_count >= 2
    /\ Len(result.sentences) >= 1

\* this, is, a, test, it, has, many, words
ScenarioWords == {<<116, 104, 105, 115>>, <<105, 115>>, <<97>>, <<116, 101, 115, 116>>, <<105, 116>>, <<104, 97, 115>>, <<109, 97, 110, 121>>, <<119, 111, 114, 100, 115>>}

ScenarioSentences == <<<<84, 104, 105, 115, 32, 105, 115, 32, 97, 32, 116, 101, 115, 116, 46>>, <<73, 116, 32, 104, 97, 115, 32, 109, 97, 110, 121, 32, 119, 111, 114, 100, 115, 46>>>>

\* ["This is a test", "It has many words"]
ScenarioSentencesFallback == <<<<84, 104, 105, 115, 32, 105, 115, 32, 97, 32, 116, 101, 115, 116>>, <<73, 116, 32, 104, 97, 115, 32, 109, 97, 110, 121, 32, 119, 111, 114, 100, 115>>>>

CodePointBefore(a, b) ==
    \E k \in 1..(Len(b)) :
        /\ \A j \in 1..(k - 1) : j <= Len(a) /\ a[j] = b[j]
        /\ \/ k = Len(a) + 1
           \/ k <= Len(a) /\ a[k] < b[k]

\* C4: unique_words is strictly ascending by word in code-point order and
\* no two of its entries have the same word.
C4_SortedUnique ==
    pc = "analyzed" =>
        /\ \A i \in 1..(Len(result.unique_words) - 1) :
              CodePointBefore(result.unique_words[i].text, result.unique_words[i + 1].text)
        /\ \A i, j \in 1..Len(result.unique_words) :
              result.unique_words[i].text = result.unique_words[j].text => i = j

\* the words were not met in sorted order
C4_Witness ==
    /\ pc = "analyzed"
    /\ Len(result.unique_words) >= 2
    /\ extract_words(clean_text(text), min_word_length)[1] # result.unique_words[1].text

ZeroResult ==
    [sentences |-> <<>>, unique_words |-> <<>>, total_words |-> 0,
     total_unique_words |-> 0, total_sentences |-> 0]

\* C5: analyze_text("") returns empty sentences and unique_words and zero
\* totals without running normalisation, segmentation or extraction; a
\* non-empty text of whitespace only yields the same zeroed result.
C5_EmptyInput ==
    pc = "analyzed" =>
        /\ text = <<>> => (result = ZeroResult /\ calls = <<>>)
        /\ (text # <<>> /\ \A i \in 1..Len(text) : IsSpace(text[i])) => result = ZeroResult

C5_Witness ==
    /\ pc = "analyzed"
    /\ text = <<>>
    /\ result.total_sentences = 0

\* the whitespace case of C5 is reached too
C5_WitnessBlank ==
    /\ pc = "analyzed"
    /\ text = BlankText
    /\ calls # <<>>

-----------------------------------------------------------------------------
(* Claims about BaseAnalysisView.extract_title (specification SpecView) *)

\* the 100/97 rule: a candidate of more than 100 characters is cut to its
\* first 97 and "..." is appended
TitleRule(c) == IF Len(c) > 100 THEN SubSeq(c, 1, 97) \o <<46, 46, 46>> ELSE c

\* the index of the first sentence whose trimmed length exceeds 10, 0 if none
FirstLong(ss) ==
    LET long == [i \in 1..Len(ss) |-> Len(Strip(ss[i])) > 10]
    IN  IF \E i \in 1..Len(ss) : long[i]
        THEN CHOOSE i \in 1..Len(ss) : long[i] /\ \A j \in 1..(i - 1) : ~long[j]
        ELSE 0

\* the title of the document metadata, empty when there is none
MetadataTitle(fi) == IF fi.kind = "epub" THEN fi.title ELSE <<>>

\* the file extension of a name: from the last dot on, when that dot lies in
\* the last path component after a character that is not a dot
Extension(f) ==
    LET n == Len(f)
        isExt(d) == /\ f[d] = 46
                    /\ \A k \in (d + 1)..n : f[k] # 46 /\ f[k] # 47
                    /\ \E k \in 1..(d - 1) :
                          /\ f[k] # 46
                          /\ \A m \in k..(d - 1) : f[m] # 47
    IN  IF \E d \in 1..n : isExt(d)
        THEN SubSeq(f, CHOOSE d \in 1..n : isExt(d), n)
        ELSE <<>>

\* C6: when the input text is empty the title is "Untitled" for every
\* endpoint kind, also when a custom title, a filename or an EPUB metadata
\* title is supplied.
C6_EmptyTextUntitled ==
    (pc = "responded" /\ text = <<>>) => response.title = Untitled

C6_Witness ==
    /\ pc = "responded"
    /\ text = <<>>
    /\ endpoint_type = "epub"
    /\ MetadataTitle(file_info) # <<>>
    /\ filename # <<>>
    /\ custom_title # <<>>
    /\ response.title = Untitled

\* the sentence a title is derived from, 0 if it is not derived from one:
\* the first sentence when there is no custom title (text), the first long
\* one when there is no filename (subtitle) or no metadata title (epub)
SourceSentence ==
    IF text = <<>> THEN 0
    ELSE IF endpoint_type = "text" /\ Strip(custom_title) = <<>> /\ result.sentences # <<>>
    THEN 1
    ELSE IF \/ endpoint_type = "subtitle" /\ filename = <<>>
            \/ endpoint_type = "epub" /\ MetadataTitle(file_info) = <<>>
    THEN FirstLong(result.sentences)
    ELSE 0

\* C7: a sentence-derived title whose candidate is longer than 100 characters
\* is exactly 100 characters, the candidate's first 97 followed by "...";
\* a candidate of at most 100 characters is returned unchanged; so every
\* sentence-derived title has at most 100 characters.
C7_Truncation ==
    pc = "responded" =>
        LET src == SourceSentence
            candidate == Strip(result.sentences[src])
        IN  src # 0 =>
              /\ Len(candidate) > 100 =>
                    /\ Len(response.title) = 100
                    /\ SubSeq(response.title, 1, 97) = SubSeq(candidate, 1, 97)
                    /\ SubSeq(response.title, 98, 100) = <<46, 46, 46>>
              /\ Len(candidate) <= 100 => response.title = candidate
              /\ Len(response.title) <= 100

C7_Witness ==
    /\ pc = "responded"
    /\ endpoint_type = "epub"
    /\ SourceSentence # 0
    /\ Len(Strip(result.sentences[SourceSentence])) > 100
    /\ Len(response.title) = 100

\* C8: endpoint kind text, non-empty text: the title is the trimmed custom
\* title when that is non-empty; otherwise the first sentence, under the
\* 100/97 rule and with no minimum length; otherwise, with no sentence,
\* "Untitled".
C8_TextTitle ==
    (pc = "responded" /\ endpoint_type = "text" /\ text # <<>>) =>
        response.title =
            IF Strip(custom_title) # <<>> THEN Strip(custom_title)
            ELSE IF result.sentences # <<>> THEN TitleRule(result.sentences[1])
            ELSE Untitled

\* a first sentence of at most 10 characters is the title although a longer
\* one follows
C8_Witness ==
    /\ pc = "responded"
    /\ endpoint_type = "text"
    /\ Strip(custom_title) = <<>>
    /\ Len(result.sentences) >= 2
    /\ Len(result.sentences[1]) <= 10
    /\ Len(result.sentences[2]) > 10
    /\ response.title = result.sentences[1]

\* C9: endpoint kind subtitle, non-empty text: with a filename the title is
\* the filename without its extension, not truncated, whatever the sentences;
\* otherwise the first sentence whose trimmed length exceeds 10, under the
\* 100/97 rule; otherwise "Untitled Subtitle".
C9_SubtitleTitle ==
    (pc = "responded" /\ endpoint_type = "subtitle" /\ text # <<>>) =>
        IF filename # <<>>
        THEN response.title \o Extension(filename) = filename
        ELSE LET first == FirstLong(result.sentences)
             IN  response.title =
                    IF first # 0 THEN TitleRule(Strip(result.sentences[first]))
                    ELSE UntitledSubtitle

\* a filename title of more than 100 characters, with a sentence available
C9_Witness ==
    /\ pc = "responded"
    /\ endpoint_type = "subtitle"
    /\ text # <<>>
    /\ Extension(filename) # <<>>
    /\ FirstLong(result.sentences) # 0
    /\ Len(response.title) > 100
    /\ response.title \o Extension(filename) = filename

\* C10: endpoint kind epub, non-empty text: with a non-empty metadata title
\* the title is that title verbatim; otherwise the first sentence, in order,
\* whose trimmed length exceeds 10, under the 100/97 rule; otherwise
\* "Untitled Book".
C10_EpubTitle ==
    (pc = "responded" /\ endpoint_type = "epub" /\ text # <<>>) =>
        LET first == FirstLong(result.sentences)
        IN  response.title =
                IF MetadataTitle(file_info) # <<>> THEN MetadataTitle(file_info)
                ELSE IF first # 0 THEN TitleRule(Strip(result.sentences[first]))
                ELSE UntitledBook

\* no metadata title, a short first sentence: the title is the second one
C10_Witness ==
    /\ pc = "responded"
    /\ endpoint_type = "epub"
    /\ MetadataTitle(file_info) = <<>>
    /\ FirstLong(result.sentences) = 2
    /\ response.title = TitleRule(result.sentences[2])

-----------------------------------------------------------------------------
(* Claims about segmentation and normalisation (specification Spec) *)

\* C11: no exception leaves analyze_text; when the primary tokenizer is
\* unavailable (use_nltk cleared by the constructor) or raises during
\* extract_sentences, the sentences of the result are those of the regex
\* fallback, trimmed and without the empty ones.
C11_SegmentationNeverFails ==
    /\ pc # "failed"
    /\ (pc = "analyzed" /\ clean_text(text) # <<>> /\ (~use_nltk \/ exception # "none")) =>
          /\ method = "fallback"
          /\ result.sentences =
                StripNonEmptyFrom(_extract_sentences_fallback(clean_text(text)), 1)
          /\ result.total_sentences = Len(result.sentences)

\* the tokenizer raised something other than a missing resource and the
\* caller has two sentences
C11_Witness ==
    /\ pc = "analyzed"
    /\ use_nltk
    /\ exception = "ValueError"
    /\ method = "fallback"
    /\ Len(result.sentences) >= 2

\* C12: the output of clean_text neither begins nor ends with whitespace,
\* its only whitespace is the single space and no two spaces are adjacent,
\* it is empty when the input is empty or all whitespace, and (specification
\* SpecClean) applying clean_text to it returns it unchanged.
C12_CleanTextIdempotent ==
    /\ [](pc \in {"cleaned", "recleaned"} =>
            LET n == Len(cleaned)
            IN  /\ n > 0 => ~IsSpace(cleaned[1]) /\ ~IsSpace(cleaned[n])
                /\ \A i \in 1..n :
                      IsSpace(cleaned[i]) =>
                          /\ cleaned[i] = 32
                          /\ i < n => ~IsSpace(cleaned[i + 1])
                /\ (\A i \in 1..Len(text) : IsSpace(text[i])) => cleaned = <<>>)
    /\ [][pc = "cleaned" => cleaned' = cleaned]_vars

\* a text with a mixed run of whitespace before a letter and whitespace
\* after it, cleaned twice
C12_Witness ==
    /\ pc = "recleaned"
    /\ Len(text) = 4
    /\ IsSpace(text[1]) /\ IsSpace(text[2]) /\ text[1] # text[2]
    /\ IsSpace(text[4])
    /\ Len(cleaned) = 1

-----------------------------------------------------------------------------
(* Claims about extract_words (specification Spec) *)

\* state, of, the, art
HyphenParts == <<<<115, 116, 97, 116, 101>>, <<111, 102>>, <<116, 104, 101>>, <<97, 114, 116>>>>

\* C13: for "state-of-the-art" with min_word_length 1, layer 3 yields the
\* token "state-of-the-art" and layer 1 yields state, of, the, art; every
\* emission is an occurrence, so total_words is 5 and each of the five words
\* is in unique_words with usage_count 1.
C13_HyphenLayers ==
    (pc = "analyzed" /\ text = HyphenText /\ min_word_length = 1) =>
        /\ findall(3, clean_text(text)) = <<HyphenText>>
        /\ findall(1, clean_text(text)) = HyphenParts
        /\ result.total_words = 5
        /\ result.total_unique_words = 5
        /\ \A w \in {HyphenText} \cup {HyphenParts[i] : i \in 1..4} :
              \E i \in 1..Len(result.unique_words) :
                  result.unique_words[i] = [text |-> w, usage_count |-> 1]

C13_Witness ==
    /\ pc = "analyzed"
    /\ text = HyphenText
    /\ min_word_length = 1
    /\ Len(result.unique_words) = 5
    /\ result.unique_words[4].text = HyphenText

-----------------------------------------------------------------------------
(* Claims about the views (specification SpecRequest) *)

\* the failure an extraction or validation collaborator reports for a
\* request: no text or file, a text that is false or, trimmed, shorter than
\* 10 characters, no file name, an unsupported extension, no text content
ReportedFailure(req) ==
    IF req.view = "text"
    THEN \/ ~req.present
         \/ ~req.value.truthy
         \/ req.value.kind = "str" /\ Len(Strip(req.value.text)) < 10
    ELSE \/ ~req.present
         \/ req.name = <<>>
         \/ Extension(Lower(req.name)) \notin {SRT, VTT, TXT}
         \/ Strip(extract_text_from_subtitles(decode_content(req.content).content,
                                              Extension(Lower(req.name)))) = <<>>

\* TextParser.analyze_text has not been invoked
PipelineNotInvoked == calls = <<>> /\ result = NoResult /\ method = "none"

\* C14: a request whose extraction or validation collaborator reports
\* failure is answered with status 400 and an error body, and analyze_text
\* is never invoked for it.
C14_FailureIsClientError ==
    ReportedFailure(request) =>
        /\ pc \in {"received", "responded"}
        /\ PipelineNotInvoked
        /\ pc = "responded" => status = 400 /\ DOMAIN response = {"error"}

\* a text of 9 characters between two spaces is refused
C14_Witness ==
    /\ pc = "responded"
    /\ request.view = "text"
    /\ request.present
    /\ Len(request.value.text) = 11
    /\ status = 400
    /\ response = [error |-> "Text is too short (minimum 10 characters)"]

-----------------------------------------------------------------------------
(* Claims about create_analysis_response (specification SpecView) *)

\* C15: the "words" field of the analysis response is the unique_words list
\* of the result as [word, count] pairs in the same order, and sentences,
\* total_words, total_unique_words and total_sentences are the fields of the
\* result unchanged; with the title these are all the fields.
C15_ResponseShape ==
    (pc = "responded" /\ status = 200) =>
        /\ DOMAIN response = {"title", "words", "sentences", "total_words",
                              "total_unique_words", "total_sentences"}
        /\ Len(response.words) = Len(result.unique_words)
        /\ \A i \in 1..Len(result.unique_words) :
              /\ response.words[i][1] = result.unique_words[i].text
              /\ response.words[i][2] = result.unique_words[i].usage_count
              /\ Len(response.words[i]) = 2
        /\ response.sentences = result.sentences
        /\ response.total_words = result.total_words
        /\ response.total_unique_words = result.total_unique_words
        /\ response.total_sentences = result.total_sentences

\* several words, one of them counted twice, and two sentences
C15_Witness ==
    /\ pc = "responded"
    /\ status = 200
    /\ Len(response.words) >= 3
    /\ \E i \in 1..Len(response.words) : response.words[i][2] = 2
    /\ Len(response.sentences) = 2

-----------------------------------------------------------------------------
(* Claims about BatchImageAnalysisView._process_batch_async (specification *)
(* SpecBatch)                                                              *)

\* what process_single_image returned for image i is a success or a failure dict
HasOutcome(i) == report[i] \in {"success", "failure"}

-----------------------------------------------------------------------------
(* Claims about the layers of TextParser.extract_words (specification Spec) *)

\* letters + apostrophe + letters
IsApostrophePair(w) ==
    \E k \in 2..(Len(w) - 1) :
        /\ w[k] = 39
        /\ \A j \in (1..Len(w)) \ {k} : IsLetter(w[j])

\* C17: layer 2 of extract_words emits only apostrophe-joined pairs: every
\* token re.findall(pattern2, text) contributes has the form letters +
\* apostrophe + letters, so a word of letters alone is never emitted by
\* layer 2.  (pattern2 holds no apostrophe: its two literals are
\* concatenated and the second, not raw, ends in the backspace character,
\* so layer 2 emits two or more letters followed by U+0008.)
C17_Layer2OnlyApostrophePairs ==
    pc = "analyzed" =>
        LET layer2 == findall(2, clean_text(text))
        IN  \A i \in 1..Len(layer2) : IsApostrophePair(layer2[i])

-----------------------------------------------------------------------------
(* Claims about the sentence segmenters (specification SpecSegment) *)

\* the characters '.', '!', '?'
Delimiters == {46, 33, 63}

\* the maximal runs of characters of t that are not delimiters, as <<first, last>>
DelimiterFreeRuns(t) ==
    {r \in (1..Len(t)) \X (1..Len(t)) :
        /\ r[1] <= r[2]
        /\ \A k \in r[1]..r[2] : t[k] \notin Delimiters
        /\ r[1] = 1 \/ t[r[1] - 1] \in Delimiters
        /\ r[2] = Len(t) \/ t[r[2] + 1] \in Delimiters}

\* those of them that hold more than whitespace
KeptRuns(t) == {r \in DelimiterFreeRuns(t) : Strip(SubSeq(t, r[1], r[2])) # <<>>}

\* C18: the regex fallback (TextParser._extract_sentences_fallback under
\* extract_sentences, and the except branch of tokenize_sentences) splits
\* the text on every maximal run of '.', '!', '?' and discards the
\* delimiters: no sentence of the fallback path contains one of them, the
\* sentences are the trimmed pieces between the runs, in order, and a text
\* without such a character yields the whole trimmed text as its single
\* sentence (no sentence when nothing is left of it after trimming).
C18_FallbackDiscardsDelimiters ==
    (pc = "segmented" /\ method = "fallback") =>
        LET ss == result.sentences
            kept == KeptRuns(text)
        IN  /\ \A k \in 1..Len(ss) : \A j \in 1..Len(ss[k]) : ss[k][j] \notin Delimiters
            /\ Len(ss) = Cardinality(kept)
            /\ \A r \in kept :
                  ss[1 + Cardinality({q \in kept : q[1] < r[1]})]
                      = Strip(SubSeq(text, r[1], r[2]))
            /\ (\A j \in 1..Len(text) : text[j] \notin Delimiters) =>
                  ss = IF Strip(text) = <<>> THEN <<>> ELSE <<Strip(text)>>

\* the fallback split "a.!b" at its run of two delimiters
C18_Witness ==
    /\ pc = "segmented"
    /\ method = "fallback"
    /\ text = <<97, 46, 33, 98>>
    /\ result.sentences = <<<<97>>, <<98>>>>

\* the sentences ss occur in t one after the other, without overlap
InSourceOrder(ss, t) ==
    \E at \in [1..Len(ss) -> 1..Len(t)] :
        /\ \A k \in 1..Len(ss) :
              /\ at[k] + Len(ss[k]) - 1 <= Len(t)
              /\ SubSeq(t, at[k], at[k] + Len(ss[k]) - 1) = ss[k]
        /\ \A k \in 1..(Len(ss) - 1) : at[k] + Len(ss[k]) <= at[k + 1]

\* C19: after either segmentation method, every element of the returned
\* sentences list is non-empty and has no leading or trailing whitespace,
\* and the elements appear in the same relative order as in the source text.
C19_SentencesTrimmedInOrder ==
    pc = "segmented" =>
        LET ss == result.sentences
        IN  /\ \A k \in 1..Len(ss) :
                  /\ ss[k] # <<>>
                  /\ ~IsSpace(ss[k][1])
                  /\ ~IsSpace(ss[k][Len(ss[k])])
            /\ InSourceOrder(ss, text)

\* the primary tokenizer cut "a. b" after the full stop, and the second
\* sentence lost its leading space
C19_Witness ==
    /\ pc = "segmented"
    /\ method = "nltk"
    /\ calls = <<"extract_sentences">>
    /\ text = <<97, 46, 32, 98>>
    /\ result.sentences = <<<<97, 46>>, <<98>>>>

-----------------------------------------------------------------------------
(* Claims about TextParser.extract_most_common_words (specification SpecTopN) *)

\* the index of the first occurrence of w in words
FirstIndex(words, w) == Min({i \in 1..Len(words) : words[i] = w})

\* C20: Top-N (extract_most_common_words) returns at most N entries, ordered
\* by usage_count descending, entries of equal count ordered by the
\* position of their first occurrence in the extracted token sequence (the
\* layers concatenated), and it contains the N highest-count words: N
\* entries, or all words when there are fewer, each with its count, and no
\* word left out has a higher count than one returned.
C20_TopN ==
    pc = "counted" =>
        LET top == result.words
            words == extract_words(clean_text(text), min_word_length)
            unique == {words[i] : i \in 1..Len(words)}
            returned == {top[k].text : k \in 1..Len(top)}
        IN  /\ Len(top) <= top_n
            /\ Len(top) = IF Cardinality(unique) < top_n THEN Cardinality(unique) ELSE top_n
            /\ \A k \in 1..Len(top) :
                  /\ top[k].text \in unique
                  /\ top[k].usage_count = CountOf(words, top[k].text)
            /\ \A k, l \in 1..Len(top) :
                  k < l =>
                      \/ top[k].usage_count > top[l].usage_count
                      \/ /\ top[k].usage_count = top[l].usage_count
                         /\ FirstIndex(words, top[k].text) < FirstIndex(words, top[l].text)
            /\ \A w \in unique \ returned :
                  \A k \in 1..Len(top) : CountOf(words, w) <= top[k].usage_count

\* of "b a", whose two words are counted once each, the top 1 is b, the
\* word met first
C20_Witness ==
    /\ pc = "counted"
    /\ text = <<98, 32, 97>>
    /\ top_n = 1
    /\ result.words = <<[text |-> <<98>>, usage_count |-> 1]>>

-----------------------------------------------------------------------------
(* Claims about TextParser.extract_words_by_frequency (specification       *)
(* SpecFrequency)                                                          *)

\* C21: the frequency-threshold filter (extract_words_by_frequency) returns
\* exactly the words whose count is at least min_frequency, each once with
\* its count, ordered by count descending and, among equal counts, by word
\* ascending; the order rests on the counts and the words alone, not on the
\* order in which the tokens were met.
C21_FrequencyFilter ==
    pc = "filtered" =>
        LET out == result.words
            words == extract_words(clean_text(text), min_word_length)
            frequent == {w \in {words[i] : i \in 1..Len(words)} :
                            CountOf(words, w) >= min_frequency}
        IN  /\ {out[k].text : k \in 1..Len(out)} = frequent
            /\ Len(out) = Cardinality(frequent)
            /\ \A k \in 1..Len(out) : out[k].usage_count = CountOf(words, out[k].text)
            /\ \A k, l \in 1..Len(out) :
                  k < l =>
                      \/ out[k].usage_count > out[l].usage_count
                      \/ /\ out[k].usage_count = out[l].usage_count
                         /\ StrLess(out[k].text, out[l].text)

\* of "b a a-b", where b is met before a, the words met at least twice
\* are a and b, a first although b was met first
C21_Witness ==
    /\ pc = "filtered"
    /\ text = <<98, 32, 97, 32, 97, 45, 98>>
    /\ min_frequency = 2
    /\ min_word_length = 1
    /\ result.words = <<[text |-> <<97>>, usage_count |-> 2],
                        [text |-> <<98>>, usage_count |-> 2]>>

-----------------------------------------------------------------------------
(* Claims about the case folding and the length filter of extract_words    *)
(* (specification Spec)                                                    *)

\* the matches of the five patterns in t, layer after layer, as matched
Matches(t) == findall(1, t) \o findall(2, t) \o findall(3, t) \o findall(4, t) \o findall(5, t)

\* C22: every token returned by extract_words is lowercase, so unique_words
\* never contains two entries that differ only by letter case, and the
\* occurrences that differ only by case in the input are counted under one
\* entry: usage_count is the number of matches, in any case, whose
\* lowercase form is the entry.
C22_CaseFolded ==
    pc = "analyzed" =>
        LET words == extract_words(clean_text(text), min_word_length)
            matches == Matches(clean_text(text))
            unique == result.unique_words
        IN  /\ \A i \in 1..Len(words) : Lower(words[i]) = words[i]
            /\ \A k, l \in 1..Len(unique) :
                  k # l => Lower(unique[k].text) # Lower(unique[l].text)
            /\ \A k \in 1..Len(unique) :
                  unique[k].usage_count =
                      Cardinality({i \in 1..Len(matches) : Lower(matches[i]) = unique[k].text})

\* "A a" holds the same word in two cases and is counted as a twice
C22_Witness ==
    /\ pc = "analyzed"
    /\ text = <<65, 32, 97>>
    /\ result.unique_words = <<[text |-> <<97>>, usage_count |-> 2]>>

\* C23: when min_length > 1, extract_words returns exactly the tokens of
\* the unfiltered (min_length = 1) output whose length is at least
\* min_length, in the same order; when min_length = 1 no token is removed
\* (there is one token per match of the patterns).
C23_MinLengthFilter ==
    pc = "analyzed" =>
        LET t == clean_text(text)
            out == extract_words(t, min_word_length)
            unfiltered == extract_words(t, 1)
            kept == {i \in 1..Len(unfiltered) : Len(unfiltered[i]) >= min_word_length}
        IN  /\ Len(unfiltered) = Len(Matches(t))
            /\ Len(out) = Cardinality(kept)
            /\ \A i \in kept : out[Cardinality({j \in kept : j <= i})] = unfiltered[i]
            /\ min_word_length = 1 => out = unfiltered
            /\ result.total_words = Len(out)

\* of the tokens a, b, a-b of "a-b" only a-b has two characters or more
C23_Witness ==
    /\ pc = "analyzed"
    /\ text = <<97, 45, 98>>
    /\ min_word_length = 2
    /\ result.total_words = 1
    /\ result.unique_words = <<[text |-> <<97, 45, 98>>, usage_count |-> 1]>>

-----------------------------------------------------------------------------
(* Claims about TextParser.get_text_statistics (specification              *)
(* SpecStatistics)                                                         *)

\* C24: for the same input text and min_word_length, get_text_statistics
\* reports the same total_words, total_unique_words and total_sentences as
\* analyze_text, and it returns average_sentence_length 0 when there are no
\* sentences and average_word_length 0 when there are no words, instead of
\* failing on a division by zero.
C24_StatisticsAgree ==
    pc = "measured" =>
        /\ statistics.total_words = result.total_words
        /\ statistics.total_unique_words = result.total_unique_words
        /\ statistics.total_sentences = result.total_sentences
        /\ result.total_sentences = 0 => statistics.average_sentence_length = 0
        /\ result.total_words = 0 => statistics.average_word_length = 0

\* "." has no sentence under the fallback and no word: both averages are
\* the guarded 0, and the three totals are those of analyze_text
C24_Witness ==
    /\ pc = "measured"
    /\ text = <<46>>
    /\ method = "fallback"
    /\ result.total_sentences = 0
    /\ statistics.total_words = 0
    /\ statistics.average_word_length = 0
    /\ statistics.average_sentence_length = 0

\* "a a" has two tokens of one character, one unique word and one sentence
C24_WitnessAverages ==
    /\ pc = "measured"
    /\ text = <<97, 32, 97>>
    /\ statistics.total_words = 2
    /\ statistics.total_unique_words = 1
    /\ statistics.average_word_length = 100
    /\ statistics.average_sentence_length = 200

-----------------------------------------------------------------------------
(* Claims about the counters and the status of a batch session             *)
(* (specification SpecBatch)                                               *)

\* C25: under every interleaving of the batch worker threads, when the
\* session is marked completed its counters satisfy processed_images =
\* total_images and successful_images + failed_images = processed_images:
\* no increment of a session counter is lost.  (The worker threads share
\* the session object without a lock: an increment whose read precedes
\* another thread's write overwrites that write.)
C25_CountersConsistent ==
    session.status = "completed" =>
        /\ session.processed_images = session.total_images
        /\ session.successful_images + session.failed_images = session.processed_images

\* the positions of the except Exception handler of process_single_image
HandlerPositions ==
    {"fail_read_processed", "fail_write_processed", "fail_read_failed",
     "fail_write_failed", "fail_save"}

\* the thread of image i has executed session.failed_images += 1 (line 183)
CountedAsFailed(i) ==
    \/ task[i] = "fail_save"
    \/ task[i] = "done" /\ report[i] = "failure"

\* the thread of image i has executed session.successful_images += 1
\* (line 164), be it before a session.save() that raised
CountedAsSuccessful(i) ==
    \/ task[i] = "ok_save"
    \/ task[i] = "done" /\ report[i] = "success"
    \/ /\ ResultStored(fate[i]) /\ fate[i] = "save"
       /\ task[i] \in HandlerPositions \cup {"done"}

\* C26: in a batch an image is counted in successful_images exactly when
\* its OCR processing and the storage of its result raised no error, and in
\* failed_images otherwise: a processed image whose OCR or storage raises is
\* counted as failed and not as successful, and one whose OCR and storage
\* would succeed is counted as successful and not as failed.  (The second
\* half fails for every image: self._create_processor_with_credentials at
\* line 122 is looked up on BatchImageAnalysisView, which does not define
\* it, so the OCR is never reached and the image is counted as failed.)
C26_SuccessCountedWhenNoError ==
    \A i \in DOMAIN task :
        task[i] = "done" =>
            /\ fate[i] \in {"ocr", "store"} =>
                    CountedAsFailed(i) /\ ~CountedAsSuccessful(i)
            /\ fate[i] \in {"ok", "save"} =>
                    CountedAsSuccessful(i) /\ ~CountedAsFailed(i)

-----------------------------------------------------------------------------
(* Claims about the results endpoint and the status of a session           *)
(* (specification SpecResults)                                             *)

-----------------------------------------------------------------------------
(* Claims about EpubProcessor.process_file (specification SpecEpub) *)

\* C29: every temporary file EpubProcessor creates while processing an
\* upload is deleted before process_file returns, on the success path and
\* on every failure path, reading the EPUB container raising included.
\* (read_epub_file returns from its except Exception without unlinking the
\* file it created, and process_file returns at once when it failed.)
C29_TempFilesDeleted ==
    pc = "processed" => temp_files = {}

-----------------------------------------------------------------------------
(* Claims about the SRT extractions (specification SpecSrt) *)

\* the lines of a content, stripped
StrippedLines(content) ==
    LET lines == split_lines_from(content, 1)
    IN  [i \in 1..Len(lines) |-> Strip(lines[i])]

\* the lines that are not blank, not digits-only and not a timestamp
CueTextLines(ls) ==
    {i \in 1..Len(ls) : ls[i] # <<>> /\ ~IsSequenceNumber(ls[i]) /\ ~IsSrtTimestamp(ls[i])}

\* the line directly follows a digits-only line
FollowsSequenceNumber(ls, i) == i > 1 /\ IsSequenceNumber(ls[i - 1])

\* the lines of ls at the indices in K, in order, from index i on
RECURSIVE LinesAt(_, _, _)
LinesAt(ls, K, i) ==
    IF i > Len(ls) THEN <<>>
    ELSE (IF i \in K THEN <<ls[i]>> ELSE <<>>) \o LinesAt(ls, K, i + 1)

\* what an extraction appends for a line: SubtitleProcessor the line
\* without its HTML tags, the view the line
EmittedForm(source, line) ==
    IF source = "SubtitleProcessor" THEN clean_html_tags(line) ELSE line

\* text_lines holds the lines at some set of indices between must and may
EmitsBetween(must, may, emitted) ==
    \E K \in SUBSET may :
        /\ must \subseteq K
        /\ result.text_lines = LinesAt(emitted, K, 1)

\* C30 as stated: SRT text extraction emits every cue text line and drops
\* only sequence-number lines, timestamp lines and blank lines; a non-blank
\* line is dropped only if it is digits-only, is a timestamp line, or
\* directly follows a digits-only line.
C30_DropsOnlyNumbersAndTimestamps ==
    pc = "extracted" =>
        LET ls == StrippedLines(request.content)
            emitted == [i \in 1..Len(ls) |-> EmittedForm(result.source, ls[i])]
            may == CueTextLines(ls)
            must == {i \in may : ~FollowsSequenceNumber(ls, i)}
        IN  EmitsBetween(must, may, emitted)

\* C30, amended: SRT text extraction emits, in order, lines that are not
\* blank, not digits-only and not a timestamp, and among them every one
\* that does not directly follow a digits-only line; SubtitleProcessor
\* emits a line without its HTML tags and also drops the line when nothing
\* is left of it then.
C30_DropsOnlyNonText ==
    pc = "extracted" =>
        LET ls == StrippedLines(request.content)
            emitted == [i \in 1..Len(ls) |-> EmittedForm(result.source, ls[i])]
            may == {i \in CueTextLines(ls) : emitted[i] # <<>>}
            must == {i \in may : ~FollowsSequenceNumber(ls, i)}
        IN  EmitsBetween(must, may, emitted)

\* SubtitleProcessor extracted the lines "<i>", "<i>a", "1": the line of a
\* tag alone is dropped, "<i>a" is emitted as "a", the number is dropped
C30_Witness ==
    /\ pc = "extracted"
    /\ result.source = "SubtitleProcessor"
    /\ request.content = <<60, 105, 62, 10, 60, 105, 62, 97, 10, 49>>
    /\ result.text_lines = << <<97>> >>

=============================================================================
